---- MODULE Spec2Model ----
(***************************************************************************)
(* Model of the ingestion-to-finalization pipeline of dvr-upload:          *)
(* handlers.UploadHandler (stream stager, name building, move into the     *)
(* processing directory), handlers.processFile (worker-pool slot, remux,   *)
(* compression, object-store upload, finalization, event publish),         *)
(* handlers.StartRecoveryTask (scan of the processing directories after a  *)
(* restart) and the collaborators they call (processor, storage, queue).   *)
(*                                                                         *)
(* A path is a record [dir, name]: dir is the sequence of the directory's  *)
(* components, name the sequence of the file name's dot-separated tokens   *)
(* ("a.ts.<uuid>.tmp" is <<"a","ts","uuid1","tmp">>).  The empty path ""   *)
(* is NoPath.  The file system is a function from the existing paths to    *)
(* their content.                                                          *)
(***************************************************************************)
EXTENDS Integers, Sequences, FiniteSets, TLC

\* ------------------------------------------------------------------ bounds
MaxUploads == 1      \* upload requests received over a behaviour
MaxCrashes == 1      \* process crashes (each followed by a restart)
MaxSize == 2         \* largest file size, in abstract units
MaxFileParts == 2    \* parts named "file" read from one multipart request
MaxFaults == 2       \* outcomes off the happy path over a behaviour
MaxPoolFaults == 1   \* the same, when the worker pool is explored
MaxWorkerCount == 2  \* largest configured MAX_CONCURRENT_WORKERS
MaxPoolUploads == 3  \* upload requests when the worker pool is explored
MaxScanTasks == 3    \* tasks alive or returned when the scanner runs on demand
MaxLiveTasks == 2    \* tasks competing for one slot under fairness

\* --------------------------------------------------------------- constants
DefaultWorkers == 2
ConfigDefaultWorkers == 6
UUIDLen == 36
TokenLen == 32
MaxFilenameLength == 255

\* ------------------------------------------------------------------- paths
NoPath == [dir |-> <<>>, name |-> <<>>]

TempDir == <<"tmp">>
VideoDir == <<"data", "upload">>
BackupDir == <<"data", "backup">>

Join(dir, comp) == Append(dir, comp)

\* filepath.Dir / filepath.Base of a cleaned directory; Clean("") is ".".
DirOf(d) == IF Len(d) = 0 THEN <<".">> ELSE IF Len(d) = 1 THEN <<>> ELSE SubSeq(d, 1, Len(d) - 1)
BaseOf(d) == IF Len(d) = 0 THEN "." ELSE d[Len(d)]

\* The two layouts of a base directory's processing directory.
NestedProc(base) == Join(base, ".processing")
SiblingProc(base) == Join(DirOf(base), ".processing_" \o BaseOf(base))

ProcComponents ==
  {".processing"} \cup {".processing_" \o BaseOf(b) : b \in {VideoDir, BackupDir, <<>>}}

\* strings.Contains(path, ".processing")
ContainsProcessing(p) == \E i \in 1..Len(p.dir) : p.dir[i] \in ProcComponents

\* strings.HasPrefix(path, prefix), component-wise; every path has prefix "".
HasPrefix(p, prefix) ==
  /\ Len(prefix) <= Len(p.dir)
  /\ SubSeq(p.dir, 1, Len(prefix)) = prefix

\* ------------------------------------------------------------------- names
\* filepath.Ext: the last dot-separated token ("" when there is no dot).
Ext(name) == IF Len(name) >= 2 THEN name[Len(name)] ELSE ""

\* strings.TrimSuffix(name, Ext(name))
TrimExt(name) == IF Len(name) >= 2 THEN SubSeq(name, 1, Len(name) - 1) ELSE name

UUID(r) == "uuid" \o ToString(r)
UUIDs == {UUID(r) : r \in 1..(MaxUploads + 1)}

\* len() of one token: a request id is a 36-character UUID.
LenOf(tok) == IF tok \in UUIDs THEN UUIDLen ELSE Len(tok)

\* finalFilename + "." + requestID + ".tmp"
StagingName(final, r) == final \o <<UUID(r), "tmp">>

\* os.CreateTemp(tempDir, "upload-stream-*"): a fresh name per call.
StreamName(r, k) == <<"upload-stream-" \o ToString(r) \o "-" \o ToString(k)>>

\* The canonical filenames a request can end up with.
Names == {<<"a", "ts">>, <<"a", "mp4">>, <<"b", "jpg">>}

\* The sizes of the file part: empty, or MaxSize.
UploadSizes == {0, MaxSize}

\* -------------------------------------------------------------- file system
Exists(f, p) == p \in DOMAIN f
Remove(f, p) == [q \in (DOMAIN f) \ {p} |-> f[q]]
WriteFile(f, p, c) == [q \in (DOMAIN f) \cup {p} |-> IF q = p THEN c ELSE f[q]]
Rename(f, src, dst) == [q \in ((DOMAIN f) \ {src}) \cup {dst} |-> IF q = dst THEN f[src] ELSE f[q]]

\* Content of a file: the request whose payload it derives from, its size,
\* what wrote it, and whether its modification time is older than the
\* recovery grace window.
File(r, size, kind) == [req |-> r, size |-> size, kind |-> kind, old |-> FALSE]

\* ------------------------------------------------------------------- state
VARIABLES
  cfg,      \* config.Config, loaded once and kept across restarts
  phase,    \* "boot": the process has started and not yet scanned; "serving"
  reqs,     \* sequence of upload requests: the state of each UploadHandler call
  tasks,    \* sequence of background tasks: the state of each processFile call
  sem,      \* number of tokens in Handler.workerSemaphore
  m,        \* the Handler's atomic counters
  fs,       \* local file system: path -> content
  s3,       \* object store: key -> content
  events,   \* events accepted by the broker
  crashes,  \* restarts so far
  lim,      \* the bounds of the behaviour
  net,      \* the collaborators: whether main got a broker client, and
            \* whether the object store and the broker answer
  health,   \* the last answer of HealthHandler, with what it observed
  naming    \* the naming of one upload: the form fields and names received,
            \* and what UploadHandler and processFile derive from them

vars == <<cfg, phase, reqs, tasks, sem, m, fs, s3, events, crashes, lim, net, health, naming>>

\* config.LoadConfig: SECRET_KEY.
SecretKeyDefault == <<"jimidvr">>

\* utils.GenerateSign: base64(hex(md5(filename + timestamp + secret))), the
\* digest taken as free of collisions on the strings of the model.
GenerateSign(filename, timestamp, secret) == <<"md5">> \o filename \o timestamp \o secret

\* strings.TrimSpace of a form value: <<" ">> is a value of white space,
\* a first token that starts with a space loses it.
TrimSpace(v) ==
  IF v = <<" ">> THEN <<>>
  ELSE IF v # <<>> /\ v[1] = " a" THEN <<"a">> \o Tail(v)
  ELSE v

\* The values of the form fields filename, timestamp and sign of a request.
NoFields == [provided |-> <<>>, timestamp |-> <<>>, sign |-> <<>>]
SignNames == {<<"a", "mp4">>, <<"b", "jpg">>}
SignFields ==
  { f \in [ provided : {<<>>, <<" ">>, <<"a", "mp4">>, <<" a", "mp4">>},
            timestamp : {<<>>, <<"t1">>},
            sign : {<<>>} \cup { GenerateSign(b, ts, k) :
                      b \in SignNames \cup {<<" ">>, <<" a", "mp4">>}, ts \in {<<>>, <<"t1">>},
                      k \in {SecretKeyDefault, <<"other">>} } ] : TRUE }

\* The values of the environment variable MAX_CONCURRENT_WORKERS: unset (""),
\* not a number, and the decimal numerals from -1 to MaxWorkerCount.
WorkerCounts == -1..MaxWorkerCount
WorkerEnvs == {"", "x"} \cup { ToString(n) : n \in WorkerCounts }

\* strconv.Atoi on these values: the number a numeral denotes, or an error.
Atoi(valStr) ==
  LET N == { n \in WorkerCounts : ToString(n) = valStr }
  IN IF N = {} THEN [val |-> 0, err |-> TRUE]
     ELSE [val |-> CHOOSE n \in N : TRUE, err |-> FALSE]

\* getEnvAsInt, given the variable's value: the default when the variable is
\* unset or does not parse.
getEnvAsInt(valStr, def) ==
  IF valStr = "" THEN def
  ELSE IF Atoi(valStr).err THEN def
  ELSE Atoi(valStr).val

\* The environment read by config.LoadConfig; S3Configured stands for a
\* bucket and an endpoint being set.
Environments ==
  [ WorkersEnv : WorkerEnvs,
    EnableLocalStorage : BOOLEAN,
    DisasterRecoveryMode : BOOLEAN,
    EnableTsToMp4 : BOOLEAN,
    EnableCompression : BOOLEAN,
    EnableS3Upload : BOOLEAN,
    S3Configured : BOOLEAN,
    EnableRabbitMQ : BOOLEAN,
    EnableSecret : BOOLEAN ]

\* config.LoadConfig: every path has a non-empty default.  WorkersEnv keeps
\* the value MaxConcurrentWorkers was read from.
LoadConfig(e) ==
  [ MaxConcurrentWorkers |-> getEnvAsInt(e.WorkersEnv, ConfigDefaultWorkers),
    WorkersEnv |-> e.WorkersEnv,
    VideoPath |-> VideoDir,
    BackupPath |-> BackupDir,
    EnableLocalStorage |-> e.EnableLocalStorage,
    DisasterRecoveryMode |-> e.DisasterRecoveryMode,
    EnableTsToMp4 |-> e.EnableTsToMp4,
    EnableCompression |-> e.EnableCompression,
    EnableS3Upload |-> e.EnableS3Upload,
    S3Configured |-> e.S3Configured,
    EnableRabbitMQ |-> e.EnableRabbitMQ,
    EnableSecret |-> e.EnableSecret,
    SecretKey |-> SecretKeyDefault ]

Configs == { LoadConfig(e) : e \in Environments }

\* The configurations explored with a crash: one worker, every transform
\* enabled, local storage and upload each on or off.
CrashConfigs ==
  { c \in Configs :
      /\ c.MaxConcurrentWorkers = 1
      /\ ~c.DisasterRecoveryMode
      /\ c.EnableTsToMp4 /\ c.EnableCompression
      /\ c.S3Configured /\ c.EnableRabbitMQ
      /\ ~c.EnableSecret }

\* The configurations explored for the worker pool and for the request's
\* parts: every worker count from 0 to MaxWorkerCount, no transform.
PoolConfigs ==
  { c \in Configs :
      /\ c.WorkersEnv \in { ToString(n) : n \in 0..MaxWorkerCount }
      /\ ~c.DisasterRecoveryMode
      /\ ~c.EnableTsToMp4 /\ ~c.EnableCompression
      /\ c.EnableLocalStorage /\ c.EnableS3Upload
      /\ c.S3Configured /\ c.EnableRabbitMQ
      /\ ~c.EnableSecret }

\* The configurations explored for the signature check: enforcement on, one
\* worker, local storage only, no transform.
SignConfigs ==
  { c \in Configs :
      /\ c.MaxConcurrentWorkers = 1
      /\ c.EnableSecret
      /\ ~c.DisasterRecoveryMode
      /\ ~c.EnableTsToMp4 /\ ~c.EnableCompression
      /\ c.EnableLocalStorage /\ ~c.EnableS3Upload
      /\ c.S3Configured /\ c.EnableRabbitMQ }

\* The configurations explored for the pool's capacity: every value of
\* MAX_CONCURRENT_WORKERS, local storage only, no transform.
CapacityConfigs ==
  { c \in Configs :
      /\ ~c.DisasterRecoveryMode
      /\ ~c.EnableTsToMp4 /\ ~c.EnableCompression
      /\ c.EnableLocalStorage /\ ~c.EnableS3Upload
      /\ c.S3Configured /\ c.EnableRabbitMQ
      /\ ~c.EnableSecret }

\* NewHandler: the capacity of workerSemaphore.
MaxWorkers(c) == IF c.MaxConcurrentWorkers <= 0 THEN DefaultWorkers ELSE c.MaxConcurrentWorkers

ZeroCounters ==
  [ mediaCount |-> 0, successfulUploads |-> 0, failedUploads |-> 0,
    interruptedUploads |-> 0, totalIncoming |-> 0, activeUploads |-> 0,
    waitingProcessors |-> 0, activeProcessors |-> 0 ]

\* No upload is being named.
NoNaming == [stage |-> "none"]

\* main: rabbitMQ is nil when NewRabbitMQClient failed.  The collaborators
\* answer or not.
Networks == [rabbitMQ : BOOLEAN, s3Up : BOOLEAN, rmqUp : BOOLEAN]
Connected == [rabbitMQ |-> TRUE, s3Up |-> TRUE, rmqUp |-> TRUE]

\* No answer of HealthHandler yet.
NoAnswer == [status |-> 0, s3Status |-> "", rmqStatus |-> "", net |-> Connected]

\* The state after main has built the Handler, for a configuration in C and
\* bounds in L, on an empty disk.
Start(C, L) ==
  /\ net = Connected
  /\ health = NoAnswer
  /\ naming = NoNaming
  /\ cfg \in C
  /\ lim \in L
  /\ phase = "boot"
  /\ reqs = <<>>
  /\ tasks = <<>>
  /\ sem = 0
  /\ m = ZeroCounters
  /\ fs = <<>>
  /\ s3 = <<>>
  /\ events = {}
  /\ crashes = 0

\* Bounds of a behaviour: the requests, crashes and faults it may contain, the
\* file parts of one request, the handler calls running at once, and the
\* canonical names and sizes of the uploads.
Limits(nUploads, nCrashes, nFileParts, nFaults, names, sizes, fields) ==
  [ uploads |-> nUploads, crashes |-> nCrashes, fileParts |-> nFileParts,
    handlers |-> 1, faults |-> nFaults, used |-> 0, names |-> names, sizes |-> sizes,
    fields |-> fields ]

CrashRuns ==
  Start(CrashConfigs, {Limits(MaxUploads, MaxCrashes, 1, MaxFaults, Names, UploadSizes, {})})
PoolRuns ==
  Start(PoolConfigs, {Limits(MaxPoolUploads, 0, 1, MaxPoolFaults, {<<"a", "mp4">>}, {MaxSize}, {})})
IngestRuns ==
  Start(PoolConfigs, {Limits(MaxUploads, 0, MaxFileParts, MaxFaults, Names, UploadSizes, {})})

ModeRuns ==
  Start({c \in Configs : c.MaxConcurrentWorkers = 1 /\ ~c.EnableSecret},
        {Limits(MaxUploads, 0, 1, MaxPoolFaults, Names, {MaxSize}, {})})
SignRuns ==
  Start(SignConfigs, {Limits(MaxUploads, 0, 1, MaxPoolFaults, SignNames, {MaxSize}, SignFields)})

CapacityRuns ==
  Start(CapacityConfigs, {Limits(MaxUploads, 0, 1, 0, {<<"a", "mp4">>}, {MaxSize}, {})})

Init == CrashRuns \/ PoolRuns \/ IngestRuns \/ ModeRuns \/ SignRuns \/ CapacityRuns

\* ----------------------------------------------------------- UploadHandler
\* baseDir of the stream file (the hidden directory is baseDir/.processing).
StreamBaseDir(c) ==
  IF c.EnableLocalStorage
    THEN IF c.DisasterRecoveryMode /\ c.BackupPath # <<>> THEN c.BackupPath
         ELSE IF c.VideoPath # <<>> THEN c.VideoPath ELSE TempDir
    ELSE TempDir

\* uploadDir and processingBase: the sibling processing directory.
UploadDir(c) ==
  IF c.DisasterRecoveryMode /\ c.BackupPath # <<>> THEN c.BackupPath ELSE c.VideoPath

ProcessingPath(c, final, r) ==
  [dir |-> SiblingProc(UploadDir(c)), name |-> StagingName(final, r)]

\* Directory of savedPath.
SavedDir(c) ==
  IF ~c.EnableLocalStorage THEN TempDir
  ELSE IF c.DisasterRecoveryMode THEN c.BackupPath ELSE c.VideoPath

\* copyFailed, heldAtResp and run record what happened (a failed stream copy,
\* the slots held when 200 was answered, the process that served the
\* request); the code does not read them.
NewRequest ==
  [ pc |-> "parts", streamed |-> NoPath, size |-> 0, nfile |-> 0,
    fieldsRead |-> FALSE, provided |-> <<>>, timestamp |-> <<>>, sign |-> <<>>,
    final |-> <<>>, resp |-> 0, msg |-> "", data |-> <<>>, copyFailed |-> FALSE,
    heldAtResp |-> 0, run |-> crashes ]

\* atomic.AddInt64(&h.failedUploads, 1) before an error response.
NotCounted(n) == n
Counted(n) == n + 1

\* The handler returns: the response is written and the deferred functions
\* run (activeUploads - 1; removal of streamedTempPath when it is set and
\* the file exists).
Return(r, code, msg, streamed, counter) ==
  /\ reqs' = [reqs EXCEPT ![r].pc = "done", ![r].resp = code, ![r].msg = msg,
                          ![r].streamed = NoPath]
  /\ fs' = IF streamed # NoPath /\ Exists(fs, streamed) THEN Remove(fs, streamed) ELSE fs
  /\ m' = IF counter = ""
            THEN [m EXCEPT !.activeUploads = @ - 1]
            ELSE [m EXCEPT !.activeUploads = @ - 1, ![counter] = Counted(@)]

\* An outcome off the happy path (an I/O error, a rejected request, a failed
\* collaborator call, a panic) uses one unit of the behaviour's fault budget.
Fault ==
  /\ lim.used < lim.faults
  /\ lim' = [lim EXCEPT !.used = @ + 1]

\* The number of UploadHandler calls that have not returned.
InFlight == Cardinality({r \in DOMAIN reqs : reqs[r].pc \notin {"done", "dead"}})

\* Entry of the handler, with a body that is multipart.
BeginUpload ==
  /\ phase = "serving"
  /\ Len(reqs) < lim.uploads
  /\ InFlight < lim.handlers
  /\ reqs' = Append(reqs, NewRequest)
  /\ m' = [m EXCEPT !.totalIncoming = @ + 1, !.activeUploads = @ + 1]
  /\ UNCHANGED <<cfg, net, health, naming, phase, tasks, sem, fs, s3, events, crashes, lim>>

\* Entry of the handler, r.MultipartReader() fails: 400.
BeginNotMultipart ==
  /\ Fault
  /\ phase = "serving"
  /\ Len(reqs) < lim.uploads
  /\ InFlight < lim.handlers
  /\ reqs' = Append(reqs, [NewRequest EXCEPT !.pc = "done", !.resp = 400,
                                             !.msg = "Expected multipart/form-data"])
  /\ m' = [m EXCEPT !.totalIncoming = @ + 1, !.failedUploads = @ + 1]
  /\ UNCHANGED <<cfg, net, health, naming, phase, tasks, sem, fs, s3, events, crashes>>

\* reader.NextPart() returns the part named "file": os.CreateTemp.
FilePart(r) ==
  /\ reqs[r].pc = "parts"
  /\ reqs[r].nfile < lim.fileParts
  /\ LET p == [dir |-> NestedProc(StreamBaseDir(cfg)), name |-> StreamName(r, reqs[r].nfile + 1)]
     IN /\ fs' = WriteFile(fs, p, File(r, 0, "partial"))
        /\ reqs' = [reqs EXCEPT ![r].pc = "copy", ![r].streamed = p, ![r].nfile = @ + 1]
  /\ UNCHANGED <<cfg, net, health, naming, phase, tasks, sem, m, s3, events, crashes, lim>>

\* os.CreateTemp fails: 500.
CreateTempFails(r) ==
  /\ Fault
  /\ reqs[r].pc = "parts"
  /\ reqs[r].nfile < lim.fileParts
  /\ Return(r, 500, "Internal server error", reqs[r].streamed, "failedUploads")
  /\ UNCHANGED <<cfg, net, health, naming, phase, tasks, sem, s3, events, crashes>>

\* io.CopyBuffer returns n bytes and no error.
CopyDone(r) ==
  /\ reqs[r].pc = "copy"
  /\ \E n \in lim.sizes :
       /\ fs' = WriteFile(fs, reqs[r].streamed, File(r, n, "payload"))
       /\ reqs' = [reqs EXCEPT ![r].pc = "parts", ![r].size = n]
  /\ UNCHANGED <<cfg, net, health, naming, phase, tasks, sem, m, s3, events, crashes, lim>>

\* io.CopyBuffer fails (the client aborts): the partial file is removed,
\* streamedTempPath is reset, 500.
CopyFails(r) ==
  /\ Fault
  /\ reqs[r].pc = "copy"
  /\ reqs' = [reqs EXCEPT ![r].pc = "done", ![r].resp = 500, ![r].streamed = NoPath,
                          ![r].msg = "Failed to receive file content",
                          ![r].copyFailed = TRUE]
  /\ fs' = Remove(fs, reqs[r].streamed)
  /\ m' = [m EXCEPT !.interruptedUploads = @ + 1, !.activeUploads = @ - 1]
  /\ UNCHANGED <<cfg, net, health, naming, phase, tasks, sem, s3, events, crashes>>

\* reader.NextPart() returns the parts of the form fields, read by
\* io.ReadAll: a value that cannot be read stays empty.
ReadFields(r) ==
  /\ reqs[r].pc = "parts"
  /\ ~reqs[r].fieldsRead
  /\ \E f \in lim.fields :
       reqs' = [reqs EXCEPT ![r].fieldsRead = TRUE, ![r].provided = f.provided,
                            ![r].timestamp = f.timestamp, ![r].sign = f.sign]
  /\ UNCHANGED <<cfg, net, health, naming, phase, tasks, sem, m, fs, s3, events, crashes, lim>>

\* reader.NextPart() fails before any file part was received: 500.
NextPartFails(r) ==
  /\ Fault
  /\ reqs[r].pc = "parts"
  /\ reqs[r].streamed = NoPath
  /\ Return(r, 500, "Error reading upload stream", NoPath, "failedUploads")
  /\ UNCHANGED <<cfg, net, health, naming, phase, tasks, sem, s3, events, crashes>>

\* reader.NextPart() returns io.EOF, or fails after the file was received:
\* the loop ends.
EndOfParts(r) ==
  /\ reqs[r].pc = "parts"
  /\ reqs' = [reqs EXCEPT ![r].pc = "post"]
  /\ UNCHANGED <<cfg, net, health, naming, phase, tasks, sem, m, fs, s3, events, crashes, lim>>

\* After the loop, no file part was received: 400.
FileRequired(r) ==
  /\ reqs[r].pc = "post"
  /\ reqs[r].streamed = NoPath
  /\ Return(r, 400, "File is required", NoPath, "failedUploads")
  /\ UNCHANGED <<cfg, net, health, naming, phase, tasks, sem, s3, events, crashes, lim>>

\* After the loop: finalFilename is longer than MaxFilenameLength: 500.
Rejected(r) ==
  /\ Fault
  /\ reqs[r].pc = "post"
  /\ reqs[r].streamed # NoPath
  /\ Return(r, 500, "File name too long", reqs[r].streamed, "failedUploads")
  /\ UNCHANGED <<cfg, net, health, naming, phase, tasks, sem, s3, events, crashes>>

\* finalFilename: the override filename when it is not blank, else the name
\* built from the form fields or the file part's name.
FinalNames(r) ==
  IF TrimSpace(reqs[r].provided) # <<>> THEN {TrimSpace(reqs[r].provided)} ELSE lim.names

\* baseForSign
BaseIsFinal(provided, final) == final
BaseForSign(provided, final) == IF TrimSpace(provided) = <<>> THEN final ELSE provided

\* The comparison of the sign field with the expected signature.
SignatureIgnored(sign, expected) == TRUE
SignatureMatches(sign, expected) == sign = expected

\* The signature check passes for request r with finalFilename final.
SignatureOk(r, final) ==
  cfg.EnableSecret =>
    SignatureMatches(reqs[r].sign,
                     GenerateSign(BaseForSign(reqs[r].provided, final),
                                  reqs[r].timestamp, cfg.SecretKey))

\* EnableSecret and the sign field differs from the expected one: 400.
SignatureError(r) ==
  /\ reqs[r].pc = "post"
  /\ reqs[r].streamed # NoPath
  /\ \E final \in FinalNames(r) :
       /\ ~SignatureOk(r, final)
       /\ reqs' = [reqs EXCEPT ![r].pc = "done", ![r].resp = 400,
                               ![r].msg = "Signature error",
                               ![r].streamed = NoPath, ![r].final = final]
  /\ fs' = IF Exists(fs, reqs[r].streamed) THEN Remove(fs, reqs[r].streamed) ELSE fs
  /\ m' = [m EXCEPT !.activeUploads = @ - 1, !.failedUploads = @ + 1]
  /\ UNCHANGED <<cfg, net, health, naming, phase, tasks, sem, s3, events, crashes, lim>>

\* -------------------------------------------------------------- processFile
\* The arguments of a processFile call and its local variables.  req, origin,
\* acquired, released, remuxFails, put, finalized, published, panicked and
\* result record
\* what the call has done and startFile the file it was given; countedOk and
\* countedFailed are the call's own additions to successfulUploads and
\* failedUploads.  The code does not read them.
NewTask(r, origin, path, filename, targetDir, isLocal, size) ==
  [ pc |-> "acquire", req |-> r, origin |-> origin,
    path |-> path, filename |-> filename, targetDir |-> targetDir,
    isLocal |-> isLocal, initialSize |-> size,
    uploadPath |-> path, uploadFilename |-> filename, currentSize |-> size,
    ext |-> Ext(filename), out |-> NoPath, finalDestPath |-> NoPath,
    startKind |-> "payload", acquired |-> 0, released |-> 0, remuxFails |-> 0, put |-> "none", putPath |-> NoPath,
    finalized |-> "no", published |-> 0, publishFailed |-> 0, panicked |-> FALSE, result |-> "",
    countedOk |-> 0, countedFailed |-> 0 ]

\* go h.processFile(...).  The goroutine's first statement,
\* waitingProcessors + 1, is taken with its creation.
SpawnHolding(ts, task) == Append(ts, [task EXCEPT !.pc = "upload"])
Spawn(ts, task) == Append(ts, task)

\* The move of the streamed file into the processing directory succeeds by
\* os.Rename; the task is detached and 200 is answered.
Accept(r) ==
  /\ reqs[r].pc = "post"
  /\ reqs[r].streamed # NoPath
  /\ Exists(fs, reqs[r].streamed)
  /\ cfg.EnableLocalStorage /\ cfg.DisasterRecoveryMode => cfg.BackupPath # <<>>
  /\ \E final \in FinalNames(r) :
       LET dst == ProcessingPath(cfg, final, r)
       IN /\ SignatureOk(r, final)
          /\ fs' = Rename(fs, reqs[r].streamed, dst)
          /\ tasks' = Spawn(tasks, NewTask(r, "upload", dst, final, SavedDir(cfg),
                                           cfg.EnableLocalStorage, reqs[r].size))
          /\ reqs' = [reqs EXCEPT ![r].pc = "done", ![r].resp = 200,
                                  ![r].msg = "File upload success", ![r].data = final,
                                  ![r].heldAtResp = sem,
                                  ![r].streamed = NoPath, ![r].final = final]
  /\ m' = [m EXCEPT !.activeUploads = @ - 1, !.waitingProcessors = @ + 1]
  /\ UNCHANGED <<cfg, net, health, naming, phase, sem, s3, events, crashes, lim>>

\* os.Rename fails and utils.CopyFile succeeds: both files exist.
AcceptCopy(r) ==
  /\ Fault
  /\ reqs[r].pc = "post"
  /\ reqs[r].streamed # NoPath
  /\ cfg.EnableLocalStorage /\ cfg.DisasterRecoveryMode => cfg.BackupPath # <<>>
  /\ \E final \in FinalNames(r) :
       LET dst == ProcessingPath(cfg, final, r)
       IN /\ SignatureOk(r, final)
          /\ fs' = WriteFile(fs, dst, File(r, reqs[r].size, "payload"))
          /\ reqs' = [reqs EXCEPT ![r].pc = "copied", ![r].final = final]
  /\ UNCHANGED <<cfg, net, health, naming, phase, tasks, sem, m, s3, events, crashes>>

\* os.Rename fails and utils.CopyFile fails, after os.Create(dst) or before
\* it: 500.
AcceptCopyFails(r) ==
  /\ Fault
  /\ reqs[r].pc = "post"
  /\ reqs[r].streamed # NoPath
  /\ cfg.EnableLocalStorage /\ cfg.DisasterRecoveryMode => cfg.BackupPath # <<>>
  /\ \E final \in FinalNames(r), created \in BOOLEAN :
       LET dst == ProcessingPath(cfg, final, r)
           fs1 == IF created THEN WriteFile(fs, dst, File(r, 0, "partial")) ELSE fs
       IN /\ SignatureOk(r, final)
          /\ fs' = Remove(fs1, reqs[r].streamed)
          /\ reqs' = [reqs EXCEPT ![r].pc = "done", ![r].resp = 500,
                                  ![r].msg = "Failed to save file",
                                  ![r].streamed = NoPath, ![r].final = final]
  /\ m' = [m EXCEPT !.activeUploads = @ - 1, !.failedUploads = @ + 1]
  /\ UNCHANGED <<cfg, net, health, naming, phase, tasks, sem, s3, events, crashes>>

\* After the copy: os.Remove(streamedTempPath), the task is detached and 200
\* is answered.
AcceptCopied(r) ==
  /\ reqs[r].pc = "copied"
  /\ fs' = Remove(fs, reqs[r].streamed)
  /\ tasks' = Spawn(tasks, NewTask(r, "upload", ProcessingPath(cfg, reqs[r].final, r),
                                   reqs[r].final, SavedDir(cfg),
                                   cfg.EnableLocalStorage, reqs[r].size))
  /\ reqs' = [reqs EXCEPT ![r].pc = "done", ![r].resp = 200,
                          ![r].msg = "File upload success", ![r].data = reqs[r].final,
                          ![r].heldAtResp = sem,
                          ![r].streamed = NoPath]
  /\ m' = [m EXCEPT !.activeUploads = @ - 1, !.waitingProcessors = @ + 1]
  /\ UNCHANGED <<cfg, net, health, naming, phase, sem, s3, events, crashes, lim>>

\* The stage after the remux stage, for the extension ext.
AfterRemuxToFinalize(ext) == "finalize"
AfterRemux(ext) ==
  IF ext = "mp4" /\ cfg.EnableCompression THEN "compress" ELSE "upload"

\* The first stage of the pipeline.
FirstStage(ext) ==
  IF ext = "ts" /\ cfg.EnableTsToMp4 THEN "remux1" ELSE AfterRemux(ext)

\* The guard of the channel send.
NoGuard(n) == TRUE
SlotFree(n) == n < MaxWorkers(cfg)

\* h.workerSemaphore <- struct{}{}: blocks while the channel is full; then
\* waitingProcessors - 1, activeProcessors + 1, and the extension test that
\* selects the first stage.
Acquire(t) ==
  /\ tasks[t].pc = "acquire"
  /\ SlotFree(sem)
  /\ sem' = sem + 1
  /\ tasks' = [tasks EXCEPT ![t].pc = FirstStage(tasks[t].ext), ![t].acquired = @ + 1]
  /\ m' = [m EXCEPT !.waitingProcessors = @ - 1, !.activeProcessors = @ + 1]
  /\ UNCHANGED <<cfg, net, health, naming, phase, reqs, fs, s3, events, crashes, lim>>

\* processor.ConvertTSToMP4: outputPath.
ConvertOutput(p) == [dir |-> p.dir, name |-> TrimExt(p.name) \o <<"mp4">>]

\* processor.CompressWithFFmpeg: outputPath.
CompressOutput(p) == [dir |-> p.dir, name |-> p.name \o <<"compressed", "mp4">>]

\* One ffmpeg invocation of ConvertTSToMP4 (the first at "remux1", the retry
\* with the bitstream filter at "remux2") exits 0 and has written outputPath.
RemuxOk(t) ==
  /\ tasks[t].pc \in {"remux1", "remux2"}
  /\ Exists(fs, tasks[t].uploadPath)
  /\ \E n \in 1..MaxSize :
       LET out == ConvertOutput(tasks[t].uploadPath)
       IN /\ fs' = WriteFile(fs, out, File(fs[tasks[t].uploadPath].req, n, "remux"))
          /\ tasks' = [tasks EXCEPT ![t].pc = "remuxed", ![t].out = out]
  /\ UNCHANGED <<cfg, net, health, naming, phase, reqs, sem, m, s3, events, crashes, lim>>

\* The pc after a failed ffmpeg invocation of the remux stage.
RemuxGiveUp(pc, ext) == IF pc = "remux1" THEN "remux2" ELSE "defer"
RemuxRetry(pc, ext) == IF pc = "remux1" THEN "remux2" ELSE AfterRemux(ext)

\* One ffmpeg invocation of ConvertTSToMP4 fails, having written a partial
\* outputPath or nothing.  After the second failure ConvertTSToMP4 returns
\* an error and the pipeline goes on with the original file.
RemuxFails(t) ==
  /\ Fault
  /\ tasks[t].pc \in {"remux1", "remux2"}
  /\ \E partial \in BOOLEAN :
       fs' = IF partial
               THEN WriteFile(fs, ConvertOutput(tasks[t].uploadPath),
                              File(tasks[t].req, 1, "partial"))
               ELSE fs
  /\ tasks' = [tasks EXCEPT ![t].pc = RemuxRetry(tasks[t].pc, tasks[t].ext),
                            ![t].remuxFails = @ + 1]
  /\ UNCHANGED <<cfg, net, health, naming, phase, reqs, sem, m, s3, events, crashes>>

\* uploadFilename after an adopted remux:
\* strings.TrimSuffix(filename, ext) + ".mp4".
RemuxedFilenameKept(filename) == filename
RemuxedFilename(filename) == TrimExt(filename) \o <<"mp4">>

\* After ConvertTSToMP4 returned no error: os.Stat(convertedPath), then the
\* original is removed and the locals are updated; when the stat fails
\* convertedPath is removed.
Remuxed(t) ==
  /\ tasks[t].pc = "remuxed"
  /\ LET T == tasks[t]
     IN IF Exists(fs, T.out)
          THEN /\ fs' = Remove(fs, T.uploadPath)
               /\ tasks' = [tasks EXCEPT
                    ![t].pc = AfterRemux("mp4"),
                    ![t].currentSize = fs[T.out].size,
                    ![t].uploadPath = T.out,
                    ![t].uploadFilename = RemuxedFilename(T.filename),
                    ![t].ext = "mp4",
                    ![t].out = NoPath]
          ELSE /\ fs' = fs
               /\ tasks' = [tasks EXCEPT ![t].pc = AfterRemux(T.ext), ![t].out = NoPath]
  /\ UNCHANGED <<cfg, net, health, naming, phase, reqs, sem, m, s3, events, crashes, lim>>

\* CompressWithFFmpeg returns ("", nil): ffprobe fails or finds no video
\* stream.  The handler stats "" and removes "": nothing changes.
CompressSkipped(t) ==
  /\ tasks[t].pc = "compress"
  /\ tasks' = [tasks EXCEPT ![t].pc = "upload"]
  /\ UNCHANGED <<cfg, net, health, naming, phase, reqs, sem, m, fs, s3, events, crashes, lim>>

\* CompressWithFFmpeg returns an error: ffmpeg failed, having written a
\* partial outputPath or nothing.
CompressFails(t) ==
  /\ Fault
  /\ tasks[t].pc = "compress"
  /\ \E partial \in BOOLEAN :
       fs' = IF partial
               THEN WriteFile(fs, CompressOutput(tasks[t].uploadPath),
                              File(tasks[t].req, 1, "partial"))
               ELSE fs
  /\ tasks' = [tasks EXCEPT ![t].pc = "upload"]
  /\ UNCHANGED <<cfg, net, health, naming, phase, reqs, sem, m, s3, events, crashes>>

\* CompressWithFFmpeg returns outputPath: ffmpeg exited 0 and wrote n bytes.
CompressOk(t) ==
  /\ tasks[t].pc = "compress"
  /\ Exists(fs, tasks[t].uploadPath)
  /\ \E n \in 0..MaxSize :
       LET out == CompressOutput(tasks[t].uploadPath)
       IN /\ fs' = WriteFile(fs, out, File(fs[tasks[t].uploadPath].req, n, "compressed"))
          /\ tasks' = [tasks EXCEPT ![t].pc = "compressed", ![t].out = out]
  /\ UNCHANGED <<cfg, net, health, naming, phase, reqs, sem, m, s3, events, crashes, lim>>

\* The test that keeps the compressed output.
KeepIfSmaller(compSize, origSize) == compSize < origSize
KeepCompressed(compSize, origSize) == compSize < origSize /\ compSize > 0

\* After CompressWithFFmpeg returned a path: both files are stat'ed; the
\* compressed one replaces the original when KeepCompressed, and is removed
\* otherwise.
Compressed(t) ==
  /\ tasks[t].pc = "compressed"
  /\ LET T == tasks[t]
     IN IF Exists(fs, T.uploadPath) /\ Exists(fs, T.out)
             /\ KeepCompressed(fs[T.out].size, fs[T.uploadPath].size)
          THEN /\ fs' = Remove(fs, T.uploadPath)
               /\ tasks' = [tasks EXCEPT
                    ![t].pc = "upload",
                    ![t].uploadPath = T.out,
                    ![t].currentSize = fs[T.out].size,
                    ![t].out = NoPath]
          ELSE /\ fs' = Remove(fs, T.out)
               /\ tasks' = [tasks EXCEPT ![t].pc = "upload", ![t].out = NoPath]
  /\ UNCHANGED <<cfg, net, health, naming, phase, reqs, sem, m, s3, events, crashes, lim>>

\* EnableS3Upload is false: the upload stage is skipped and counted a success.
UploadDisabled(t) ==
  /\ tasks[t].pc = "upload"
  /\ ~cfg.EnableS3Upload
  /\ tasks' = [tasks EXCEPT ![t].pc = "finalize", ![t].put = "disabled",
                            ![t].countedOk = @ + 1]
  /\ m' = [m EXCEPT !.successfulUploads = @ + 1]
  /\ UNCHANGED <<cfg, net, health, naming, phase, reqs, sem, fs, s3, events, crashes, lim>>

\* UploadFileToS3 returns nil without a put: no client (bucket or endpoint
\* not configured).
UploadNoClient(t) ==
  /\ tasks[t].pc = "upload"
  /\ cfg.EnableS3Upload /\ ~cfg.S3Configured
  /\ tasks' = [tasks EXCEPT ![t].pc = "finalize", ![t].put = "noclient",
                            ![t].countedOk = @ + 1]
  /\ m' = [m EXCEPT !.successfulUploads = @ + 1]
  /\ UNCHANGED <<cfg, net, health, naming, phase, reqs, sem, fs, s3, events, crashes, lim>>

\* UploadFileToS3: PutObject succeeds for the file at uploadPath.
UploadOk(t) ==
  /\ tasks[t].pc = "upload"
  /\ cfg.EnableS3Upload /\ cfg.S3Configured
  /\ Exists(fs, tasks[t].uploadPath)
  /\ s3' = WriteFile(s3, tasks[t].uploadFilename, fs[tasks[t].uploadPath])
  /\ tasks' = [tasks EXCEPT ![t].pc = "finalize", ![t].put = "ok",
                            ![t].putPath = tasks[t].uploadPath,
                            ![t].countedOk = @ + 1]
  /\ m' = [m EXCEPT !.successfulUploads = @ + 1]
  /\ UNCHANGED <<cfg, net, health, naming, phase, reqs, sem, fs, events, crashes, lim>>

\* The pc after a failed upload.
AfterUploadFailureGoOn == "finalize"
AfterUploadFailure == "defer"

\* UploadFileToS3 returns an error (the file cannot be opened, PutObject
\* fails or times out): failedUploads + 1 and return.
UploadFails(t) ==
  /\ Fault
  /\ tasks[t].pc = "upload"
  /\ cfg.EnableS3Upload /\ cfg.S3Configured
  /\ tasks' = [tasks EXCEPT ![t].pc = AfterUploadFailure, ![t].put = "failed",
                            ![t].result = "Failed",
                            ![t].countedFailed = @ + 1]
  /\ m' = [m EXCEPT !.failedUploads = @ + 1]
  /\ UNCHANGED <<cfg, net, health, naming, phase, reqs, sem, fs, s3, events, crashes>>

\* finalDestPath in local-storage mode.
FinalDest(T) == [dir |-> T.targetDir, name |-> T.uploadFilename]

\* Not local: finalDestPath = "".
FinalizeNotLocal(t) ==
  /\ tasks[t].pc = "finalize"
  /\ ~tasks[t].isLocal
  /\ tasks' = [tasks EXCEPT ![t].pc = "publish", ![t].finalDestPath = NoPath,
                            ![t].finalized = "notlocal"]
  /\ UNCHANGED <<cfg, net, health, naming, phase, reqs, sem, m, fs, s3, events, crashes, lim>>

\* Local: os.Rename(uploadPath, finalDestPath) succeeds.
FinalizeRename(t) ==
  /\ tasks[t].pc = "finalize"
  /\ tasks[t].isLocal
  /\ Exists(fs, tasks[t].uploadPath)
  /\ fs' = Rename(fs, tasks[t].uploadPath, FinalDest(tasks[t]))
  /\ tasks' = [tasks EXCEPT ![t].pc = "publish", ![t].finalDestPath = FinalDest(tasks[t]),
                            ![t].finalized = "moved"]
  /\ UNCHANGED <<cfg, net, health, naming, phase, reqs, sem, m, s3, events, crashes, lim>>

\* Local: os.Rename fails and utils.CopyFile succeeds: both files exist.
FinalizeCopy(t) ==
  /\ Fault
  /\ tasks[t].pc = "finalize"
  /\ tasks[t].isLocal
  /\ Exists(fs, tasks[t].uploadPath)
  /\ fs' = WriteFile(fs, FinalDest(tasks[t]),
                     [fs[tasks[t].uploadPath] EXCEPT !.old = FALSE])
  /\ tasks' = [tasks EXCEPT ![t].pc = "fcopied", ![t].finalDestPath = FinalDest(tasks[t]),
                            ![t].finalized = "copied"]
  /\ UNCHANGED <<cfg, net, health, naming, phase, reqs, sem, m, s3, events, crashes>>

\* Local: after the copy, os.Remove(uploadPath).
FinalizeCopied(t) ==
  /\ tasks[t].pc = "fcopied"
  /\ fs' = Remove(fs, tasks[t].uploadPath)
  /\ tasks' = [tasks EXCEPT ![t].pc = "publish"]
  /\ UNCHANGED <<cfg, net, health, naming, phase, reqs, sem, m, s3, events, crashes, lim>>

\* Local: os.Rename fails and utils.CopyFile fails, after os.Create(dst) or
\* before it: finalDestPath = uploadPath.
FinalizeFails(t) ==
  /\ Fault
  /\ tasks[t].pc = "finalize"
  /\ tasks[t].isLocal
  /\ \E created \in BOOLEAN :
       fs' = IF created /\ Exists(fs, tasks[t].uploadPath)
               THEN WriteFile(fs, FinalDest(tasks[t]), File(tasks[t].req, 0, "partial"))
               ELSE fs
  /\ tasks' = [tasks EXCEPT ![t].pc = "publish", ![t].finalDestPath = tasks[t].uploadPath,
                            ![t].finalized = "failed"]
  /\ UNCHANGED <<cfg, net, health, naming, phase, reqs, sem, m, s3, events, crashes>>

\* queue.UploadEvent, with the process run, the task and the request it is
\* about.
Event(t) ==
  [ run |-> crashes, task |-> t, req |-> tasks[t].req, Filename |-> tasks[t].uploadFilename,
    Size |-> tasks[t].currentSize, Path |-> tasks[t].finalDestPath ]

\* mediaCount + 1; EnableRabbitMQ is false (or there is no client): no
\* publish.
PublishDisabled(t) ==
  /\ tasks[t].pc = "publish"
  /\ ~cfg.EnableRabbitMQ
  /\ tasks' = [tasks EXCEPT ![t].pc = "defer", ![t].result = "Completed"]
  /\ m' = [m EXCEPT !.mediaCount = @ + 1]
  /\ UNCHANGED <<cfg, net, health, naming, phase, reqs, sem, fs, s3, events, crashes, lim>>

\* The pc after a failed publish: the function logs and returns.
AfterPublishFailureRetry == "publish"
AfterPublishFailure == "defer"

\* mediaCount + 1; PublishEvent returns an error, which is logged.
PublishFails(t) ==
  /\ Fault
  /\ tasks[t].pc = "publish"
  /\ cfg.EnableRabbitMQ
  /\ tasks' = [tasks EXCEPT ![t].pc = AfterPublishFailure, ![t].result = "Completed",
                            ![t].publishFailed = @ + 1]
  /\ m' = [m EXCEPT !.mediaCount = @ + 1]
  /\ UNCHANGED <<cfg, net, health, naming, phase, reqs, sem, fs, s3, events, crashes>>

\* mediaCount + 1; PublishEvent succeeds.
PublishOk(t) ==
  /\ tasks[t].pc = "publish"
  /\ cfg.EnableRabbitMQ
  /\ events' = events \cup {Event(t)}
  /\ tasks' = [tasks EXCEPT ![t].pc = "defer", ![t].published = @ + 1,
                            ![t].result = "Completed"]
  /\ m' = [m EXCEPT !.mediaCount = @ + 1]
  /\ UNCHANGED <<cfg, net, health, naming, phase, reqs, sem, fs, s3, crashes, lim>>

\* A collaborator call panics: the deferred function runs.
Panic(t) ==
  /\ Fault
  /\ tasks[t].pc \in {"remux1", "remux2", "compress", "upload", "publish"}
  /\ tasks' = [tasks EXCEPT ![t].pc = "defer", ![t].panicked = TRUE,
                            ![t].result = "Failed"]
  /\ UNCHANGED <<cfg, net, health, naming, phase, reqs, sem, m, fs, s3, events, crashes>>

\* atomic.AddInt64(&h.activeProcessors, -1)
ProcessorStays(n) == n
ProcessorLeaves(n) == n - 1

\* The deferred function, up to the release: activeProcessors - 1, recover(),
\* and removal of uploadPath when it is in a processing directory and exists.
Deferred(t) ==
  /\ tasks[t].pc = "defer"
  /\ LET p == tasks[t].uploadPath
     IN fs' = IF p # NoPath /\ ContainsProcessing(p) /\ Exists(fs, p)
                THEN Remove(fs, p) ELSE fs
  /\ tasks' = [tasks EXCEPT ![t].pc = "release"]
  /\ m' = [m EXCEPT !.activeProcessors = ProcessorLeaves(@)]
  /\ UNCHANGED <<cfg, net, health, naming, phase, reqs, sem, s3, events, crashes, lim>>

\* A goroutine that has returned: its arguments and locals are gone, the
\* record of what it did stays.
Returned(T) ==
  [ T EXCEPT !.pc = "done", !.path = NoPath, !.filename = <<>>, !.targetDir = <<>>,
             !.initialSize = 0, !.uploadPath = NoPath, !.uploadFilename = <<>>,
             !.currentSize = 0, !.ext = "", !.out = NoPath, !.finalDestPath = NoPath,
             !.putPath = NoPath ]

\* The tokens in the channel after a receive.
ReceiveNothing(n) == n
Receive(n) == n - 1

\* <-h.workerSemaphore, and the goroutine returns.
Release(t) ==
  /\ tasks[t].pc = "release"
  /\ sem' = Receive(sem)
  /\ tasks' = [tasks EXCEPT ![t] = Returned([tasks[t] EXCEPT !.released = @ + 1])]
  /\ UNCHANGED <<cfg, net, health, naming, phase, reqs, m, fs, s3, events, crashes, lim>>

\* ------------------------------------------------------- StartRecoveryTask
\* The length tests on the token between the last two dots.
LooksLikeId(tok) == LenOf(tok) = UUIDLen \/ LenOf(tok) = TokenLen

\* originalName: the entry's name without a trailing ".<id>.tmp".
RecoverName(name) ==
  IF Ext(name) = "tmp"
    THEN LET tempName == TrimExt(name)
         IN IF Len(tempName) >= 2 /\ LooksLikeId(tempName[Len(tempName)])
              THEN SubSeq(tempName, 1, Len(tempName) - 1)
              ELSE name
    ELSE name

\* isLocal, inferred from the path.
InferLocal(path) == HasPrefix(path, cfg.VideoPath) \/ HasPrefix(path, cfg.BackupPath)

\* The base directories scanned, in order.
ScanBases ==
  (IF cfg.VideoPath # <<>> THEN <<cfg.VideoPath>> ELSE <<>>)
    \o (IF cfg.BackupPath # <<>> THEN <<cfg.BackupPath>> ELSE <<>>)

\* The grace window: entries modified less than 10 seconds ago are skipped.
Eligible(f, path) == f[path].old

\* The entries resubmitted by a scan: <<base index, path>>.
ScanEntries ==
  { <<i, path>> \in (1..Len(ScanBases)) \X (DOMAIN fs) :
      /\ path.dir \in {NestedProc(ScanBases[i]), SiblingProc(ScanBases[i])}
      /\ Eligible(fs, path) }

RecoveredTask(e) ==
  [ NewTask(fs[e[2]].req, "recovery", e[2], RecoverName(e[2].name), ScanBases[e[1]],
            InferLocal(e[2]), fs[e[2]].size)
    EXCEPT !.startKind = fs[e[2]].kind ]

RECURSIVE SpawnAll(_, _)
SpawnAll(ts, S) ==
  IF S = {} THEN ts
  ELSE LET e == CHOOSE x \in S : TRUE
       IN SpawnAll(Spawn(ts, RecoveredTask(e)), S \ {e})

\* The scan run when the process starts: one processFile goroutine per
\* eligible entry.
StartRecoveryTask ==
  /\ phase = "boot"
  /\ phase' = "serving"
  /\ tasks' = SpawnAll(tasks, ScanEntries)
  /\ m' = [m EXCEPT !.waitingProcessors = @ + Cardinality(ScanEntries)]
  /\ UNCHANGED <<cfg, net, health, naming, reqs, sem, fs, s3, events, crashes, lim>>

\* ------------------------------------------------------------- environment
\* No handler and no task is running.
Idle ==
  /\ InFlight = 0
  /\ \A t \in DOMAIN tasks : tasks[t].pc = "done"

\* More than the grace window passes: every file's modification time is old.
\* Time is let pass before the startup scan, and while the process is idle
\* with a recent file in a scanned directory.
PassTime ==
  /\ \/ phase = "boot" /\ \E p \in DOMAIN fs : ~fs[p].old
     \/ /\ phase = "serving" /\ Idle
        /\ \E p \in DOMAIN fs :
             /\ ~fs[p].old
             /\ \E i \in 1..Len(ScanBases) :
                  p.dir \in {NestedProc(ScanBases[i]), SiblingProc(ScanBases[i])}
  /\ fs' = [p \in DOMAIN fs |-> [fs[p] EXCEPT !.old = TRUE]]
  /\ UNCHANGED <<cfg, net, health, naming, phase, reqs, tasks, sem, m, s3, events, crashes, lim>>

\* The process is killed and started again: every handler and task is gone,
\* NewHandler builds a fresh Handler, the disk and the collaborators keep
\* their state.
Crash ==
  /\ crashes < lim.crashes
  /\ crashes' = crashes + 1
  /\ phase' = "boot"
  /\ reqs' = [r \in DOMAIN reqs |->
                IF reqs[r].pc = "done" THEN reqs[r]
                ELSE [reqs[r] EXCEPT !.pc = "dead", !.streamed = NoPath]]
  /\ tasks' = <<>>
  /\ sem' = 0
  /\ m' = ZeroCounters
  /\ UNCHANGED <<cfg, net, health, naming, fs, s3, events, lim>>

\* ------------------------------------------------------------ specification
Next ==
  \/ BeginUpload
  \/ BeginNotMultipart
  \/ \E r \in DOMAIN reqs : FilePart(r)
  \/ \E r \in DOMAIN reqs : CreateTempFails(r)
  \/ \E r \in DOMAIN reqs : CopyDone(r)
  \/ \E r \in DOMAIN reqs : CopyFails(r)
  \/ \E r \in DOMAIN reqs : NextPartFails(r)
  \/ \E r \in DOMAIN reqs : EndOfParts(r)
  \/ \E r \in DOMAIN reqs : FileRequired(r)
  \/ \E r \in DOMAIN reqs : Rejected(r)
  \/ \E r \in DOMAIN reqs : ReadFields(r)
  \/ \E r \in DOMAIN reqs : SignatureError(r)
  \/ \E r \in DOMAIN reqs : Accept(r)
  \/ \E r \in DOMAIN reqs : AcceptCopy(r)
  \/ \E r \in DOMAIN reqs : AcceptCopyFails(r)
  \/ \E r \in DOMAIN reqs : AcceptCopied(r)
  \/ \E t \in DOMAIN tasks : Acquire(t)
  \/ \E t \in DOMAIN tasks : RemuxOk(t)
  \/ \E t \in DOMAIN tasks : RemuxFails(t)
  \/ \E t \in DOMAIN tasks : Remuxed(t)
  \/ \E t \in DOMAIN tasks : CompressSkipped(t)
  \/ \E t \in DOMAIN tasks : CompressFails(t)
  \/ \E t \in DOMAIN tasks : CompressOk(t)
  \/ \E t \in DOMAIN tasks : Compressed(t)
  \/ \E t \in DOMAIN tasks : UploadDisabled(t)
  \/ \E t \in DOMAIN tasks : UploadNoClient(t)
  \/ \E t \in DOMAIN tasks : UploadOk(t)
  \/ \E t \in DOMAIN tasks : UploadFails(t)
  \/ \E t \in DOMAIN tasks : FinalizeNotLocal(t)
  \/ \E t \in DOMAIN tasks : FinalizeRename(t)
  \/ \E t \in DOMAIN tasks : FinalizeCopy(t)
  \/ \E t \in DOMAIN tasks : FinalizeCopied(t)
  \/ \E t \in DOMAIN tasks : FinalizeFails(t)
  \/ \E t \in DOMAIN tasks : PublishDisabled(t)
  \/ \E t \in DOMAIN tasks : PublishFails(t)
  \/ \E t \in DOMAIN tasks : PublishOk(t)
  \/ \E t \in DOMAIN tasks : Panic(t)
  \/ \E t \in DOMAIN tasks : Deferred(t)
  \/ \E t \in DOMAIN tasks : Release(t)
  \/ StartRecoveryTask
  \/ PassTime
  \/ Crash

Spec == Init /\ [][Next]_vars

\* The behaviours in which every collaborator succeeds and the process is
\* never killed: local storage, no disaster-recovery mode, one worker, every
\* other mode on or off; the request may hold several file parts.
LiveConfigs ==
  { c \in Configs :
      /\ c.MaxConcurrentWorkers = 1
      /\ c.EnableLocalStorage /\ ~c.DisasterRecoveryMode
      /\ ~c.EnableSecret }

LiveInit ==
  Start(LiveConfigs, {Limits(MaxUploads, 0, MaxFileParts, 0, Names, UploadSizes, {})})

\* The steps of the background tasks in these behaviours.
LiveTaskStep ==
  \/ \E t \in DOMAIN tasks : Acquire(t)
  \/ \E t \in DOMAIN tasks : RemuxOk(t)
  \/ \E t \in DOMAIN tasks : Remuxed(t)
  \/ \E t \in DOMAIN tasks : CompressSkipped(t)
  \/ \E t \in DOMAIN tasks : CompressOk(t)
  \/ \E t \in DOMAIN tasks : Compressed(t)
  \/ \E t \in DOMAIN tasks : UploadDisabled(t)
  \/ \E t \in DOMAIN tasks : UploadNoClient(t)
  \/ \E t \in DOMAIN tasks : UploadOk(t)
  \/ \E t \in DOMAIN tasks : FinalizeRename(t)
  \/ \E t \in DOMAIN tasks : PublishDisabled(t)
  \/ \E t \in DOMAIN tasks : PublishOk(t)
  \/ \E t \in DOMAIN tasks : Deferred(t)
  \/ \E t \in DOMAIN tasks : Release(t)

LiveNext ==
  \/ StartRecoveryTask
  \/ BeginUpload
  \/ \E r \in DOMAIN reqs : FilePart(r)
  \/ \E r \in DOMAIN reqs : CopyDone(r)
  \/ \E r \in DOMAIN reqs : EndOfParts(r)
  \/ \E r \in DOMAIN reqs : FileRequired(r)
  \/ \E r \in DOMAIN reqs : Accept(r)
  \/ LiveTaskStep

\* The Go scheduler runs every goroutine that can take a step, and the
\* collaborators return: the tasks' steps are weakly fair.
LiveSpec == LiveInit /\ [][LiveNext]_vars /\ WF_vars(LiveTaskStep)

\* ------------------------------------------------------- recovery on demand
\* StartRecoveryTask called while the process serves: one processFile
\* goroutine per eligible entry, whatever tasks are alive.
RecoveryOnDemand ==
  /\ phase = "serving"
  /\ ScanEntries # {}
  /\ Len(tasks) + Cardinality(ScanEntries) <= MaxScanTasks
  /\ tasks' = SpawnAll(tasks, ScanEntries)
  /\ m' = [m EXCEPT !.waitingProcessors = @ + Cardinality(ScanEntries)]
  /\ UNCHANGED <<cfg, net, health, naming, phase, reqs, sem, fs, s3, events, crashes, lim>>

\* More than the grace window passes while handlers or tasks are running.
TimePasses ==
  /\ phase = "serving"
  /\ \E p \in DOMAIN fs : ~fs[p].old
  /\ fs' = [p \in DOMAIN fs |-> [fs[p] EXCEPT !.old = TRUE]]
  /\ UNCHANGED <<cfg, net, health, naming, phase, reqs, tasks, sem, m, s3, events, crashes, lim>>

\* UploadHandler when the streamed file is no longer at streamedTempPath:
\* os.Rename fails, utils.CopyFile fails at os.Open: 500.
AcceptSourceGone(r) ==
  /\ reqs[r].pc = "post"
  /\ reqs[r].streamed # NoPath
  /\ ~Exists(fs, reqs[r].streamed)
  /\ cfg.EnableLocalStorage /\ cfg.DisasterRecoveryMode => cfg.BackupPath # <<>>
  /\ \E final \in FinalNames(r) :
       /\ SignatureOk(r, final)
       /\ reqs' = [reqs EXCEPT ![r].pc = "done", ![r].resp = 500,
                               ![r].msg = "Failed to save file",
                               ![r].streamed = NoPath, ![r].final = final]
  /\ m' = [m EXCEPT !.activeUploads = @ - 1, !.failedUploads = @ + 1]
  /\ UNCHANGED <<cfg, net, health, naming, phase, tasks, sem, fs, s3, events, crashes, lim>>

\* UploadFileToS3 when the file is no longer at uploadPath: os.Open fails,
\* failedUploads + 1 and return.
UploadSourceGone(t) ==
  /\ tasks[t].pc = "upload"
  /\ cfg.EnableS3Upload /\ cfg.S3Configured
  /\ ~Exists(fs, tasks[t].uploadPath)
  /\ tasks' = [tasks EXCEPT ![t].pc = AfterUploadFailure, ![t].put = "failed",
                            ![t].result = "Failed",
                            ![t].countedFailed = @ + 1]
  /\ m' = [m EXCEPT !.failedUploads = @ + 1]
  /\ UNCHANGED <<cfg, net, health, naming, phase, reqs, sem, fs, s3, events, crashes, lim>>

\* Finalize when the file is no longer at uploadPath: os.Rename fails,
\* utils.CopyFile fails at os.Open: finalDestPath = uploadPath.
FinalizeSourceGone(t) ==
  /\ tasks[t].pc = "finalize"
  /\ tasks[t].isLocal
  /\ ~Exists(fs, tasks[t].uploadPath)
  /\ tasks' = [tasks EXCEPT ![t].pc = "publish", ![t].finalDestPath = tasks[t].uploadPath,
                            ![t].finalized = "failed"]
  /\ UNCHANGED <<cfg, net, health, naming, phase, reqs, sem, m, fs, s3, events, crashes, lim>>

\* The behaviours with the scanner run on demand: one upload, one worker,
\* no transform, no crash and no failing collaborator.
ScanConfigs ==
  { c \in LiveConfigs : ~c.EnableTsToMp4 /\ ~c.EnableCompression }

\* BACKUP_VIDEO_PATH set to the value of LOCAL_VIDEO_PATH.
SameBase(c) == [c EXCEPT !.BackupPath = c.VideoPath]

ScanInit ==
  Start(ScanConfigs, {Limits(MaxUploads, 0, 1, 0, Names, {MaxSize}, {})})

SameBaseInit ==
  Start({SameBase(c) : c \in ScanConfigs}, {Limits(MaxUploads, 0, 1, 0, Names, {MaxSize}, {})})

ScanTaskStep ==
  \/ \E t \in DOMAIN tasks : Acquire(t)
  \/ \E t \in DOMAIN tasks : UploadDisabled(t)
  \/ \E t \in DOMAIN tasks : UploadNoClient(t)
  \/ \E t \in DOMAIN tasks : UploadOk(t)
  \/ \E t \in DOMAIN tasks : UploadSourceGone(t)
  \/ \E t \in DOMAIN tasks : FinalizeNotLocal(t)
  \/ \E t \in DOMAIN tasks : FinalizeRename(t)
  \/ \E t \in DOMAIN tasks : FinalizeSourceGone(t)
  \/ \E t \in DOMAIN tasks : PublishDisabled(t)
  \/ \E t \in DOMAIN tasks : PublishOk(t)
  \/ \E t \in DOMAIN tasks : Deferred(t)
  \/ \E t \in DOMAIN tasks : Release(t)

ScanNext ==
  \/ StartRecoveryTask
  \/ BeginUpload
  \/ \E r \in DOMAIN reqs : FilePart(r)
  \/ \E r \in DOMAIN reqs : CopyDone(r)
  \/ \E r \in DOMAIN reqs : EndOfParts(r)
  \/ \E r \in DOMAIN reqs : Accept(r)
  \/ \E r \in DOMAIN reqs : AcceptSourceGone(r)
  \/ ScanTaskStep
  \/ TimePasses
  \/ RecoveryOnDemand

ScanSpec == ScanInit /\ [][ScanNext]_vars

\* The same behaviours with one directory configured as both bases.
SameBaseSpec == SameBaseInit /\ [][ScanNext]_vars

\* ------------------------------------------------------------------ cleanup
\* The tests of cleanup on an entry's name.
MediaExts == {"mp4", "ts", "jpg", "jpeg", "png", "mkv", "avi"}
IsMedia(name) == Ext(name) \in MediaExts
IsStreamName(name) ==
  \E r \in 1..(MaxUploads + 1), k \in 1..MaxFileParts : name = StreamName(r, k)
IsTemp(name) ==
  \/ IsStreamName(name)
  \/ Ext(name) = "tmp"
  \/ \E i \in 2..Len(name) : name[i] = "compressed"
HasNoName(name) == Len(name) = 2 /\ name[1] = ""

\* shouldRemove, for an entry older than maxAge.
ShouldRemove(name, isProcessingDir) ==
  IF isProcessingDir
    THEN ~IsMedia(name) \/ IsTemp(name) \/ HasNoName(name)
    ELSE IsTemp(name) \/ HasNoName(name) \/ ~IsMedia(name)

\* now.Sub(info.ModTime()) > maxAge.  In these behaviours time passes in
\* steps longer than maxAge (5 minutes).
Expired(f, path) == f[path].old

\* addDirs: the bases and their processing directories.
CleanupBases ==
  {cfg.VideoPath} \cup
    (IF cfg.BackupPath # <<>> /\ cfg.BackupPath # cfg.VideoPath THEN {cfg.BackupPath} ELSE {})
CleanupProcessingDirs ==
  UNION { {NestedProc(b), SiblingProc(b)} : b \in CleanupBases \ {<<>>} }
CleanupDirs == {TempDir} \cup (CleanupBases \ {<<>>}) \cup CleanupProcessingDirs

\* The entries one sweep removes.
Swept ==
  { p \in DOMAIN fs :
      /\ p.dir \in CleanupDirs
      /\ Expired(fs, p)
      /\ ShouldRemove(p.name, p.dir \in CleanupProcessingDirs) }

\* One run of cleanup, taken while no handler is running.
Cleanup ==
  /\ phase = "serving"
  /\ InFlight = 0
  /\ Swept # {}
  /\ fs' = [p \in (DOMAIN fs) \ Swept |-> fs[p]]
  /\ UNCHANGED <<cfg, net, health, naming, phase, reqs, tasks, sem, m, s3, events, crashes, lim>>

SweepInit ==
  Start(ScanConfigs, {Limits(MaxUploads, 0, 1, 0, Names, {MaxSize}, {})})

SweepNext ==
  \/ StartRecoveryTask
  \/ BeginUpload
  \/ \E r \in DOMAIN reqs : FilePart(r)
  \/ \E r \in DOMAIN reqs : CopyDone(r)
  \/ \E r \in DOMAIN reqs : EndOfParts(r)
  \/ \E r \in DOMAIN reqs : Accept(r)
  \/ \E t \in DOMAIN tasks : Acquire(t)
  \/ \E t \in DOMAIN tasks : UploadDisabled(t)
  \/ \E t \in DOMAIN tasks : UploadNoClient(t)
  \/ \E t \in DOMAIN tasks : UploadOk(t)
  \/ \E t \in DOMAIN tasks : UploadSourceGone(t)
  \/ \E t \in DOMAIN tasks : FinalizeRename(t)
  \/ \E t \in DOMAIN tasks : FinalizeSourceGone(t)
  \/ \E t \in DOMAIN tasks : PublishDisabled(t)
  \/ \E t \in DOMAIN tasks : PublishOk(t)
  \/ \E t \in DOMAIN tasks : Deferred(t)
  \/ \E t \in DOMAIN tasks : Release(t)
  \/ TimePasses
  \/ Cleanup

SweepSpec == SweepInit /\ [][SweepNext]_vars

\* ------------------------------------------------------- tasks under fairness
\* context.WithTimeout(context.Background(), 2*time.Minute): a put that is
\* not answered returns an error when the deadline passes.
PutNeverReturns(n) == FALSE
PutDeadlinePasses(n) == ~n.s3Up

\* UploadFileToS3 when the object store does not answer: PutObject returns
\* when the context's two minutes are over; failedUploads + 1 and return.
UploadTimesOut(t) ==
  /\ tasks[t].pc = "upload"
  /\ cfg.EnableS3Upload /\ cfg.S3Configured
  /\ PutDeadlinePasses(net)
  /\ tasks' = [tasks EXCEPT ![t].pc = AfterUploadFailure, ![t].put = "failed",
                            ![t].result = "Failed",
                            ![t].countedFailed = @ + 1]
  /\ m' = [m EXCEPT !.failedUploads = @ + 1]
  /\ UNCHANGED <<cfg, net, health, naming, phase, reqs, sem, fs, s3, events, crashes, lim>>

\* PutObject returns no error: the object store answers.
PutAnswered(t) == net.s3Up /\ UploadOk(t)

\* One step of task t.
TaskStep(t) ==
  \/ Acquire(t)
  \/ RemuxOk(t)
  \/ RemuxFails(t)
  \/ Remuxed(t)
  \/ CompressSkipped(t)
  \/ CompressFails(t)
  \/ CompressOk(t)
  \/ Compressed(t)
  \/ UploadDisabled(t)
  \/ UploadNoClient(t)
  \/ PutAnswered(t)
  \/ UploadTimesOut(t)
  \/ UploadFails(t)
  \/ FinalizeNotLocal(t)
  \/ FinalizeRename(t)
  \/ FinalizeCopy(t)
  \/ FinalizeCopied(t)
  \/ FinalizeFails(t)
  \/ PublishDisabled(t)
  \/ PublishFails(t)
  \/ PublishOk(t)
  \/ Panic(t)
  \/ Deferred(t)
  \/ Release(t)

\* The configurations of these behaviours: one worker; every transform,
\* collaborator and local storage on, or all of them off, or an object store
\* enabled without an endpoint.
TaskLiveConfigs ==
  { c \in Configs :
      /\ c.MaxConcurrentWorkers = 1
      /\ ~c.DisasterRecoveryMode /\ ~c.EnableSecret
      /\ c.EnableTsToMp4 = c.EnableCompression
      /\ c.EnableLocalStorage = c.EnableTsToMp4
      /\ c.EnableRabbitMQ = c.EnableTsToMp4
      /\ c.EnableS3Upload = (c.EnableTsToMp4 \/ ~c.S3Configured) }

\* The object store answers or never answers; the process is not killed.
TaskLiveInit ==
  /\ net \in {Connected, [Connected EXCEPT !.s3Up = FALSE]}
  /\ health = NoAnswer
  /\ naming = NoNaming
  /\ cfg \in TaskLiveConfigs
  /\ lim = Limits(MaxLiveTasks, 0, 1, 1, {<<"a", "ts">>}, {MaxSize}, {})
  /\ phase = "boot"
  /\ reqs = <<>>
  /\ tasks = <<>>
  /\ sem = 0
  /\ m = ZeroCounters
  /\ fs = <<>>
  /\ s3 = <<>>
  /\ events = {}
  /\ crashes = 0

TaskLiveNext ==
  \/ StartRecoveryTask
  \/ BeginUpload
  \/ \E r \in DOMAIN reqs : FilePart(r)
  \/ \E r \in DOMAIN reqs : CopyDone(r)
  \/ \E r \in DOMAIN reqs : EndOfParts(r)
  \/ \E r \in DOMAIN reqs : Accept(r)
  \/ \E t \in DOMAIN tasks : Acquire(t)
  \/ \E t \in DOMAIN tasks : RemuxOk(t)
  \/ \E t \in DOMAIN tasks : RemuxFails(t)
  \/ \E t \in DOMAIN tasks : Remuxed(t)
  \/ \E t \in DOMAIN tasks : CompressSkipped(t)
  \/ \E t \in DOMAIN tasks : CompressFails(t)
  \/ \E t \in DOMAIN tasks : CompressOk(t)
  \/ \E t \in DOMAIN tasks : Compressed(t)
  \/ \E t \in DOMAIN tasks : UploadDisabled(t)
  \/ \E t \in DOMAIN tasks : UploadNoClient(t)
  \/ \E t \in DOMAIN tasks : PutAnswered(t)
  \/ \E t \in DOMAIN tasks : UploadTimesOut(t)
  \/ \E t \in DOMAIN tasks : UploadFails(t)
  \/ \E t \in DOMAIN tasks : FinalizeNotLocal(t)
  \/ \E t \in DOMAIN tasks : FinalizeRename(t)
  \/ \E t \in DOMAIN tasks : FinalizeCopy(t)
  \/ \E t \in DOMAIN tasks : FinalizeCopied(t)
  \/ \E t \in DOMAIN tasks : FinalizeFails(t)
  \/ \E t \in DOMAIN tasks : PublishDisabled(t)
  \/ \E t \in DOMAIN tasks : PublishFails(t)
  \/ \E t \in DOMAIN tasks : PublishOk(t)
  \/ \E t \in DOMAIN tasks : Panic(t)
  \/ \E t \in DOMAIN tasks : Deferred(t)
  \/ \E t \in DOMAIN tasks : Release(t)

\* Every goroutine that can take a step eventually takes one.
TaskLiveSpec ==
  /\ TaskLiveInit
  /\ [][TaskLiveNext]_vars
  /\ \A t \in 1..MaxLiveTasks : WF_vars(t \in DOMAIN tasks /\ TaskStep(t))

\* ------------------------------------------------------------ HealthHandler
\* initS3: the client exists when upload is enabled and the bucket and the
\* endpoint are set.
S3Client(c) == c.EnableS3Upload /\ c.S3Configured

\* StorageService.Ping: an error without a client, else the outcome of
\* ListBuckets.
StoragePing(c, n) == IF ~S3Client(c) THEN "error" ELSE IF n.s3Up THEN "ok" ELSE "error"

\* RabbitMQClient.Ping: the broker answers or not.
RabbitPing(n) == IF n.rmqUp THEN "ok" ELSE "error"

\* s3Status and rmqStatus.
S3Status(c, n) == StoragePing(c, n)
RmqStatus(n) == IF n.rabbitMQ THEN RabbitPing(n) ELSE "not_configured"

\* The status code of the report.
HealthStatus(c, n) ==
  IF S3Status(c, n) # "ok" \/ (n.rabbitMQ /\ RmqStatus(n) # "ok") THEN 503 ELSE 200

\* GET /health.
HealthHandler ==
  /\ health' = [ status |-> HealthStatus(cfg, net), s3Status |-> S3Status(cfg, net),
                 rmqStatus |-> RmqStatus(net), net |-> net ]
  /\ UNCHANGED <<cfg, phase, reqs, tasks, sem, m, fs, s3, events, crashes, lim, net, naming>>

\* A collaborator stops or starts answering.
CollaboratorChanges ==
  /\ \E n \in Networks : n.rabbitMQ = net.rabbitMQ /\ n # net /\ net' = n
  /\ UNCHANGED <<cfg, phase, reqs, tasks, sem, m, fs, s3, events, crashes, lim, health, naming>>

\* The behaviours of the health endpoint: every storage and broker setting,
\* a Handler built with or without a broker client, both collaborators
\* answering at first, no upload.
HealthConfigs ==
  { c \in Configs :
      /\ c.MaxConcurrentWorkers = 1
      /\ ~c.DisasterRecoveryMode /\ ~c.EnableTsToMp4 /\ ~c.EnableCompression
      /\ ~c.EnableSecret }

HealthInit ==
  /\ cfg \in HealthConfigs
  /\ lim = Limits(0, 0, 1, 0, {}, {}, {})
  /\ net \in {n \in Networks : n.s3Up /\ n.rmqUp}
  /\ health = NoAnswer
  /\ naming = NoNaming
  /\ phase = "serving"
  /\ reqs = <<>>
  /\ tasks = <<>>
  /\ sem = 0
  /\ m = ZeroCounters
  /\ fs = <<>>
  /\ s3 = <<>>
  /\ events = {}
  /\ crashes = 0

HealthNext == HealthHandler \/ CollaboratorChanges

HealthSpec == HealthInit /\ [][HealthNext]_vars

\* ------------------------------------------------------------------ naming
\* In the naming of an upload a string is a sequence of one-character
\* strings.
Digits == {"0", "1", "2", "3", "4", "5", "6", "7", "8", "9"}
HexDigits == Digits \cup {"A", "B", "C", "D", "E", "F", "a", "b", "c", "d", "e", "f"}

\* strings.Repeat(c, n)
Repeat(c, n) == [i \in 1..n |-> c]

AllIn(v, S) == \A i \in DOMAIN v : v[i] \in S

\* strings.TrimSpace
RECURSIVE TrimLeft(_)
TrimLeft(v) == IF v # <<>> /\ v[1] = " " THEN TrimLeft(Tail(v)) ELSE v
RECURSIVE TrimRight(_)
TrimRight(v) ==
  IF v # <<>> /\ v[Len(v)] = " " THEN TrimRight(SubSeq(v, 1, Len(v) - 1)) ELSE v
StringsTrimSpace(v) == TrimRight(TrimLeft(v))

\* strings.ToUpper and strings.ToLower, on the letters of the inputs.
UpperCase ==
  [ c \in {"i", "f", "x", "a", "b", "g"} |->
      CASE c = "i" -> "I" [] c = "f" -> "F" [] c = "x" -> "X"
        [] c = "a" -> "A" [] c = "b" -> "B" [] c = "g" -> "G" ]
LowerCase ==
  [ c \in {"E", "V", "N", "T", "J", "P", "G"} |->
      CASE c = "E" -> "e" [] c = "V" -> "v" [] c = "N" -> "n" [] c = "T" -> "t"
        [] c = "J" -> "j" [] c = "P" -> "p" [] c = "G" -> "g" ]
ToUpper(v) == [i \in DOMAIN v |-> IF v[i] \in DOMAIN UpperCase THEN UpperCase[v[i]] ELSE v[i]]
ToLower(v) == [i \in DOMAIN v |-> IF v[i] \in DOMAIN LowerCase THEN LowerCase[v[i]] ELSE v[i]]

\* The last index of character c in v, 0 when there is none.
LastIndex(v, c) ==
  LET I == {i \in DOMAIN v : v[i] = c}
  IN IF I = {} THEN 0 ELSE CHOOSE i \in I : \A j \in I : j <= i

\* filepath.Ext: the suffix from the last dot of the last element.
FilepathExt(v) ==
  IF LastIndex(v, ".") > LastIndex(v, "/") THEN SubSeq(v, LastIndex(v, "."), Len(v))
  ELSE <<>>

\* The regular expressions of BuildStandardFilename.
MatchImei(v) == Len(v) \in 8..20 /\ AllIn(v, Digits)
MatchChannel(v) == Len(v) \in 1..3 /\ AllIn(v, Digits)
MatchHex(v) == Len(v) >= 1 /\ AllIn(v, HexDigits)
MatchIndex(v) == Len(v) \in 1..3 /\ AllIn(v, Digits)

\* parseDateTimeFlexible, for an empty value (now), ten digits (unix
\* seconds) and values of no supported format; the formatted time is the
\* one character "T".
ParseDateTimeFlexible(v) ==
  IF v = <<>> THEN [ok |-> TRUE, tsPart |-> <<"T">>]
  ELSE IF Len(v) = 10 /\ AllIn(v, Digits) THEN [ok |-> TRUE, tsPart |-> <<"T">>]
  ELSE [ok |-> FALSE, tsPart |-> <<>>]

\* leftPad
LeftPad(v, width) == IF Len(v) >= width THEN v ELSE Repeat("0", width - Len(v)) \o v

BuildError(e) == [name |-> <<>>, err |-> e]
Built(name) == [name |-> name, err |-> ""]

Underscore == <<"_">>
EventPrefix == <<"E", "V", "E", "N", "T">>
Reserved == Repeat("0", 8)
DatExt == <<".", "d", "a", "t">>
PatternEvent == <<"e", "v", "e", "n", "t">>
PatternSnapshot == <<"s", "n", "a", "p", "s", "h", "o", "t">>

\* utils.BuildStandardFilename(r, fh), for the form values f and
\* fh.Filename; UploadHandler passes a FileHeader without a Content-Type.
BuildStandardFilename(f, filename) ==
  LET imei == StringsTrimSpace(f.imei)
      typ == StringsTrimSpace(ToUpper(f.type))
      channel == StringsTrimSpace(f.channel)
      dtRaw == StringsTrimSpace(f.datetime)
      pattern == StringsTrimSpace(ToLower(f.pattern))
      ext0 == ToLower(FilepathExt(filename))
      ext == IF ext0 = <<>> THEN DatExt ELSE ext0
      rawHex == StringsTrimSpace(f.raw)
      index == StringsTrimSpace(f.index)
      t == ParseDateTimeFlexible(dtRaw)
  IN IF pattern = PatternEvent \/ (imei # <<>> /\ typ # <<>> /\ channel # <<>>)
       THEN IF imei # <<>> /\ ~MatchImei(imei) THEN BuildError("invalid imei")
            ELSE IF typ # <<>> /\ typ # <<"I">> /\ typ # <<"F">>
              THEN BuildError("invalid type (expect I or F)")
            ELSE IF channel # <<>> /\ ~MatchChannel(channel) THEN BuildError("invalid channel")
            ELSE IF ~t.ok THEN BuildError("datetime parse")
            ELSE Built(EventPrefix \o Underscore \o imei \o Underscore \o Reserved
                       \o Underscore \o t.tsPart \o Underscore \o typ
                       \o Underscore \o channel \o ext)
     ELSE IF pattern = PatternSnapshot \/ (imei # <<>> /\ rawHex # <<>>)
       THEN IF imei # <<>> /\ ~MatchImei(imei) THEN BuildError("invalid imei")
            ELSE IF rawHex # <<>> /\ ~MatchHex(rawHex) THEN BuildError("invalid raw hex block")
            ELSE IF channel # <<>> /\ ~MatchChannel(channel) THEN BuildError("invalid channel")
            ELSE IF index # <<>> /\ ~MatchIndex(index) THEN BuildError("invalid index")
            ELSE Built(imei \o Underscore \o rawHex \o Underscore \o channel
                       \o Underscore \o LeftPad(index, 2) \o ext)
     ELSE BuildError("insufficient data for standardized filename")

\* A path is a sequence of elements below the root; an element is a string.
\* The elements of v between its separators, empty ones dropped.
RECURSIVE SplitPath(_)
SplitPath(v) ==
  IF v = <<>> THEN <<>>
  ELSE LET I == {i \in DOMAIN v : v[i] = "/"}
           k == IF I = {} THEN Len(v) + 1 ELSE CHOOSE i \in I : \A j \in I : i <= j
           head == SubSeq(v, 1, k - 1)
           rest == SplitPath(SubSeq(v, k + 1, Len(v)))
       IN IF head = <<>> THEN rest ELSE <<head>> \o rest

\* filepath.Clean on a rooted path: "." is dropped, ".." drops the element
\* before it and is dropped at the root.
RECURSIVE CleanOnto(_, _)
CleanOnto(acc, elems) ==
  IF elems = <<>> THEN acc
  ELSE IF Head(elems) = <<".">> THEN CleanOnto(acc, Tail(elems))
  ELSE IF Head(elems) = <<".", ".">>
    THEN CleanOnto(IF acc = <<>> THEN acc ELSE SubSeq(acc, 1, Len(acc) - 1), Tail(elems))
  ELSE CleanOnto(Append(acc, Head(elems)), Tail(elems))
FilepathClean(path) == CleanOnto(<<>>, path)

\* filepath.Join(dir, name) for a rooted dir.
FilepathJoin(dir, name) == FilepathClean(dir \o SplitPath(name))

\* filepath.Dir of a rooted clean path.
FilepathDir(path) == IF path = <<>> THEN path ELSE SubSeq(path, 1, Len(path) - 1)

\* filepath.Base: "." for the empty string, "/" for separators only, else
\* the last element.
FilepathBase(v) ==
  IF v = <<>> THEN <<".">>
  ELSE IF SplitPath(v) = <<>> THEN <<"/">>
  ELSE SplitPath(v)[Len(SplitPath(v))]

\* A directory of the configuration as a path of this kind.
RootedDir(d) == [i \in DOMAIN d |-> <<d[i]>>]

\* finalFilename
FinalFilename(providedFilename, builtName, buildErr, handlerFilename) ==
  LET p == StringsTrimSpace(providedFilename)
  IN FilepathBase(IF p # <<>> THEN p
                  ELSE IF buildErr = "" /\ builtName # <<>> THEN builtName
                  ELSE handlerFilename)

\* The form values and names explored.
FormValues ==
  [ imei : {<<>>, Repeat("1", 8), Repeat("1", 7), Repeat("1", 7) \o <<"x">>},
    type : {<<>>, <<"I">>, <<"f">>, <<"X">>},
    channel : {<<>>, <<"1">>, Repeat("1", 4)},
    datetime : {<<>>, Repeat("1", 10), <<"x">>},
    pattern : {<<>>, PatternEvent, EventPrefix, PatternSnapshot},
    raw : {<<>>, <<"A", "b">>, <<"G">>},
    index : {<<>>, <<"3">>, <<"x">>} ]
NoForm ==
  [ imei |-> <<>>, type |-> <<>>, channel |-> <<>>, datetime |-> <<>>,
    pattern |-> <<>>, raw |-> <<>>, index |-> <<>> ]
SnapshotForm == [NoForm EXCEPT !.imei = Repeat("1", 8), !.raw = <<"A", "b">>,
                               !.channel = <<"1">>, !.index = <<"3">>]
JpgName == <<"a", ".", "j", "p", "g">>
OverrideName == <<"o", ".", "j", "p", "g">>
SenderNames ==
  { JpgName, <<>>, <<".", ".", "/", "b", ".", "t", "s">>, <<".", ".">>,
    Repeat("a", MaxFilenameLength + 1) }
OverrideNames ==
  { <<>>, <<" ">>, OverrideName, <<".", ".", "/">> \o OverrideName, <<".", ".">>,
    <<"/">>, <<"d", "/", ".", ".">>, Repeat("a", MaxFilenameLength),
    Repeat("a", MaxFilenameLength + 1) }

\* The naming of an upload whose parts have been read.
NewNaming(f, handlerFilename, providedFilename) ==
  [ stage |-> "fields", form |-> f, handlerFilename |-> handlerFilename,
    providedFilename |-> providedFilename, builtName |-> <<>>, buildErr |-> "",
    finalFilename |-> <<>>, resp |-> 0, savedPath |-> <<>>, finalDestPath |-> <<>> ]

NamingConfigs ==
  { c \in Configs :
      /\ c.MaxConcurrentWorkers = 1
      /\ ~c.EnableTsToMp4 /\ ~c.EnableCompression
      /\ ~c.EnableS3Upload /\ c.S3Configured /\ c.EnableRabbitMQ
      /\ ~c.EnableSecret }

\* Every combination of form values with a plain name and override, and
\* every combination of names with two forms.
NamingInit ==
  /\ \/ /\ cfg \in {c \in NamingConfigs : c.EnableLocalStorage /\ ~c.DisasterRecoveryMode}
        /\ \E f \in FormValues, o \in {<<>>, <<" ">>, OverrideName} :
             naming = NewNaming(f, JpgName, o)
     \/ /\ cfg \in NamingConfigs
        /\ \E f \in {NoForm, SnapshotForm}, h \in SenderNames, o \in OverrideNames :
             naming = NewNaming(f, h, o)
  /\ lim = Limits(0, 0, 1, 0, {}, {}, {})
  /\ net = Connected
  /\ health = NoAnswer
  /\ phase = "serving"
  /\ reqs = <<>>
  /\ tasks = <<>>
  /\ sem = 0
  /\ m = ZeroCounters
  /\ fs = <<>>
  /\ s3 = <<>>
  /\ events = {}
  /\ crashes = 0

NamingRest == <<cfg, phase, reqs, tasks, sem, m, fs, s3, events, crashes, lim, net, health>>

\* UploadHandler: utils.BuildStandardFilename on the form values read.
BuildName ==
  /\ naming.stage = "fields"
  /\ LET b == BuildStandardFilename(naming.form, naming.handlerFilename)
     IN naming' = [naming EXCEPT !.stage = "built", !.builtName = b.name, !.buildErr = b.err]
  /\ UNCHANGED NamingRest

\* UploadHandler: finalFilename.
ChooseFinal ==
  /\ naming.stage = "built"
  /\ naming' = [naming EXCEPT !.stage = "final",
                  !.finalFilename = FinalFilename(naming.providedFilename, naming.builtName,
                                                  naming.buildErr, naming.handlerFilename)]
  /\ UNCHANGED NamingRest

\* UploadHandler: the name is longer than MaxFilenameLength: 500.
NameTooLong ==
  /\ naming.stage = "final"
  /\ Len(naming.finalFilename) > MaxFilenameLength
  /\ naming' = [naming EXCEPT !.stage = "rejected", !.resp = 500]
  /\ UNCHANGED NamingRest

\* UploadHandler: savedPath, and the upload is accepted.
SavePath ==
  /\ naming.stage = "final"
  /\ Len(naming.finalFilename) <= MaxFilenameLength
  /\ naming' = [naming EXCEPT !.stage = "saved", !.resp = 200,
                  !.savedPath = FilepathJoin(RootedDir(SavedDir(cfg)), naming.finalFilename)]
  /\ UNCHANGED NamingRest

\* processFile: finalDestPath, for targetFinalPath = savedPath and
\* uploadFilename = finalFilename.
FinalDestPath ==
  /\ naming.stage = "saved"
  /\ naming' = [naming EXCEPT !.stage = "dest",
                  !.finalDestPath =
                     IF cfg.EnableLocalStorage
                       THEN FilepathJoin(FilepathDir(naming.savedPath), naming.finalFilename)
                       ELSE <<>>]
  /\ UNCHANGED NamingRest

NamingNext == BuildName \/ ChooseFinal \/ NameTooLong \/ SavePath \/ FinalDestPath

NamingSpec == NamingInit /\ [][NamingNext]_vars

\* ------------------------------------------------- the staging name and back
\* Names are strings, as in the naming section.
DotTmp == <<".", "t", "m", "p">>

\* strings.HasSuffix, strings.TrimSuffix
HasSuffix(v, suf) ==
  Len(v) >= Len(suf) /\ SubSeq(v, Len(v) - Len(suf) + 1, Len(v)) = suf
TrimSuffix(v, suf) ==
  IF HasSuffix(v, suf) THEN SubSeq(v, 1, Len(v) - Len(suf)) ELSE v

\* UploadHandler: the name of the staging file,
\* finalFilename + "." + requestID + ".tmp".
StagingFileName(finalFilename, requestID) ==
  finalFilename \o <<".">> \o requestID \o DotTmp

\* The length test on uuidPart.
IsIdLengthUuidOnly(uuidPart) == Len(uuidPart) = UUIDLen
IsIdLength(uuidPart) == Len(uuidPart) = UUIDLen \/ Len(uuidPart) = TokenLen

\* StartRecoveryTask: originalName, from the name of a directory entry.
OriginalName(entryName) ==
  IF HasSuffix(entryName, DotTmp)
    THEN LET tempName == TrimSuffix(entryName, DotTmp)
             lastDot == LastIndex(tempName, ".")
         IN IF lastDot # 0
              THEN LET uuidPart == SubSeq(tempName, lastDot + 1, Len(tempName))
                   IN IF IsIdLength(uuidPart)
                        THEN SubSeq(tempName, 1, lastDot - 1)
                        ELSE entryName
              ELSE entryName
    ELSE entryName

\* uuid.New().String(): 8-4-4-4-12 hexadecimal digits; and a token of
\* TokenLen characters.
UuidString ==
  Repeat("0", 8) \o <<"-">> \o Repeat("0", 4) \o <<"-">> \o Repeat("4", 4) \o <<"-">>
    \o Repeat("a", 4) \o <<"-">> \o Repeat("f", 12)
TokenString == Repeat("c", TokenLen)
RequestIds == {UuidString, TokenString}

\* Identifiers of other lengths, and one of UUIDLen characters with a dot.
OtherIds ==
  { <<>>, <<"x">>, Repeat("c", TokenLen - 1), Repeat("c", TokenLen + 1),
    Repeat("c", UUIDLen - 1), Repeat("c", UUIDLen + 1),
    Repeat("c", 3) \o <<".">> \o Repeat("c", TokenLen) }

\* Canonical filenames.
CanonicalNames ==
  { <<"a", ".", "t", "s">>, <<"a", ".", "m", "p", "4">>, <<"b", ".", "j", "p", "g">>,
    <<"a">>, <<".">>, <<"a", ".", "t", "m", "p">>,
    <<"a", ".">> \o TokenString, <<"a", ".">> \o UuidString \o DotTmp }

\* Entries of a processing directory that no upload staged under that name.
OtherEntries ==
  { <<"a", ".", "t", "s", ".">> \o UuidString \o <<".", "m", "p", "4">>,
    <<"a", ".", "m", "p", "4", ".">> \o UuidString
      \o <<".", "t", "m", "p", ".", "c", "o", "m", "p", "r", "e", "s", "s", "e", "d", ".", "m", "p", "4">>,
    <<"a", ".", "t", "m", "p">>, DotTmp, <<"t", "m", "p">>, TokenString \o DotTmp,
    <<"a", ".", "b", ".", "t", "m", "p">> }

RoundTripInit ==
  /\ cfg \in {c \in NamingConfigs : c.EnableLocalStorage /\ ~c.DisasterRecoveryMode}
  /\ \/ \E C \in CanonicalNames, R \in RequestIds \cup OtherIds :
          naming = [stage |-> "accepted", finalFilename |-> C, requestID |-> R,
                    entryName |-> <<>>, originalName |-> <<>>]
     \/ \E e \in OtherEntries :
          naming = [stage |-> "staged", finalFilename |-> <<>>, requestID |-> <<>>,
                    entryName |-> e, originalName |-> <<>>]
  /\ lim = Limits(0, 0, 1, 0, {}, {}, {})
  /\ net = Connected
  /\ health = NoAnswer
  /\ phase = "serving"
  /\ reqs = <<>>
  /\ tasks = <<>>
  /\ sem = 0
  /\ m = ZeroCounters
  /\ fs = <<>>
  /\ s3 = <<>>
  /\ events = {}
  /\ crashes = 0

\* UploadHandler names the staging file.
StageFile ==
  /\ naming.stage = "accepted"
  /\ naming' = [naming EXCEPT !.stage = "staged",
                   !.entryName = StagingFileName(naming.finalFilename, naming.requestID)]
  /\ UNCHANGED NamingRest

\* StartRecoveryTask reconstructs the name of an entry.
ReconstructName ==
  /\ naming.stage = "staged"
  /\ naming' = [naming EXCEPT !.stage = "recovered",
                   !.originalName = OriginalName(naming.entryName)]
  /\ UNCHANGED NamingRest

RoundTripNext == StageFile \/ ReconstructName

RoundTripSpec == RoundTripInit /\ [][RoundTripNext]_vars


\* ------------------------------------------------------------------ claims
\* The tasks that hold a worker-pool slot: after the send, before the receive.
Holding == {t \in DOMAIN tasks : tasks[t].pc \notin {"acquire", "done"}}
Waiting == {t \in DOMAIN tasks : tasks[t].pc = "acquire"}

\* The staging directories: both layouts of both base directories, and the
\* hidden directory of the system temp directory.
StagingDirs ==
  {NestedProc(b) : b \in {cfg.VideoPath, cfg.BackupPath, TempDir}}
    \cup {SiblingProc(b) : b \in {cfg.VideoPath, cfg.BackupPath}}

StagedFiles(r) == {p \in DOMAIN fs : p.dir \in StagingDirs /\ fs[p].req = r}

\* C1: in every reachable state, for every configured worker count, the
\* number of tasks between acquiring and releasing a worker-pool slot is at
\* most the pool's capacity N.
C1_ConcurrencyBound == Cardinality(Holding) <= MaxWorkers(cfg)

\* C1 witness: a pool of capacity 2 is full and a third task waits for a slot.
C1_Witness ==
  /\ cfg.MaxConcurrentWorkers = 2
  /\ Cardinality(Holding) = 2
  /\ Waiting # {}

\* C2: a task acquires one slot per run and releases it once on every exit
\* path: a task that has not acquired holds nothing, a task in the pipeline
\* has acquired once and not released, a task that returned (normally, after
\* an upload failure or after a panic) has acquired once and released once;
\* the channel holds one token per task in the pipeline, so that it is empty
\* once every task has returned.
C2_SlotPerTask ==
  /\ \A t \in DOMAIN tasks :
       /\ tasks[t].pc = "acquire" => tasks[t].acquired = 0 /\ tasks[t].released = 0
       /\ t \in Holding => tasks[t].acquired = 1 /\ tasks[t].released = 0
       /\ tasks[t].pc = "done" => tasks[t].acquired = 1 /\ tasks[t].released = 1
  /\ sem = Cardinality(Holding)
  /\ (\A t \in DOMAIN tasks : tasks[t].pc = "done") => sem = 0

\* C2 witness: every task has returned, one of them after a panic and one
\* after a normal completion.
C2_Witness ==
  /\ \A t \in DOMAIN tasks : tasks[t].pc = "done"
  /\ \E t \in DOMAIN tasks : tasks[t].panicked
  /\ \E t \in DOMAIN tasks : tasks[t].result = "Completed"

\* C3: a task whose object-store put has failed is Failed: it never enters
\* finalization, publishes no event, and once its deferred function has run
\* its staged file does not exist.
C3_UploadFailureTerminal ==
  \A t \in DOMAIN tasks :
    tasks[t].put = "failed" =>
      /\ tasks[t].result = "Failed"
      /\ tasks[t].pc \in {"defer", "release", "done"}
      /\ tasks[t].finalized = "no"
      /\ tasks[t].published = 0
      /\ \A e \in events : ~(e.run = crashes /\ e.task = t)
      /\ tasks[t].pc = "release" => ~Exists(fs, tasks[t].uploadPath)

\* C3 witness: a task whose put failed has run its deferred function.
C3_Witness ==
  \E t \in DOMAIN tasks : tasks[t].put = "failed" /\ tasks[t].pc = "release"

Accepted == {r \in DOMAIN reqs : reqs[r].resp = 200}

\* A file that holds the whole payload of an upload, as received or as
\* transformed.
Complete(c) == c.kind \in {"payload", "remux", "compressed"}

\* The payload of upload r is in a durable place enabled by the
\* configuration: the object store, or the final directory.
Durable(r) ==
  \/ /\ cfg.EnableS3Upload
     /\ \E k \in DOMAIN s3 : s3[k].req = r /\ Complete(s3[k])
  \/ /\ cfg.EnableLocalStorage
     /\ \E p \in DOMAIN fs : p.dir = SavedDir(cfg) /\ fs[p].req = r /\ Complete(fs[p])

\* The payload of upload r is still in a staging directory.
Staged(r) == \E p \in StagedFiles(r) : Complete(fs[p])

\* A configuration that enables a durable place and, when it enables the
\* remote upload, names the bucket and the endpoint.
Storing(c) ==
  /\ c.EnableS3Upload \/ c.EnableLocalStorage
  /\ c.EnableS3Upload => c.S3Configured

\* C5: no duplicate delivery: whatever the crashes and recovery scans of a
\* behaviour, at most one event is published for each accepted upload.
C5_AtMostOneEvent ==
  \A r \in Accepted :
    Storing(cfg) => Cardinality({e \in events : e.req = r}) <= 1

\* C6: no data loss: in a behaviour where no collaborator fails, the payload
\* of an accepted upload is never deleted without having been stored in a
\* durable place enabled by the configuration: at every instant it is in the
\* staging area, in the object store or in the final directory.
C6_NoDataLoss ==
  \A r \in Accepted :
    (lim.used = 0 /\ Storing(cfg)) => Staged(r) \/ Durable(r)

\* The task detached for upload r by the handler, in the process that
\* accepted it.
LiveTaskOf(r) ==
  {t \in DOMAIN tasks : tasks[t].req = r /\ tasks[t].origin = "upload" /\ tasks[t].pc # "done"}

\* C7: from the 200 response of an accepted upload until its task returns,
\* the staging directories hold exactly one file of that upload.
C7_OneStagedFile ==
  \A r \in Accepted : LiveTaskOf(r) # {} => Cardinality(StagedFiles(r)) = 1

\* C8: when both remux attempts of a task have failed the task goes on to
\* the upload stage and is not failed by the remux: until the put, its
\* staged file is the file it was given, unchanged, its canonical filename
\* is the unchanged .ts name and its size is unchanged; it returns only
\* after the upload stage (or a panic).
C8_RemuxFailureKeepsOriginal ==
  \A t \in DOMAIN tasks :
    tasks[t].remuxFails = 2 =>
      /\ tasks[t].pc \in {"upload", "finalize", "fcopied", "publish", "defer", "release", "done"}
      /\ tasks[t].pc \in {"defer", "release", "done"} =>
           tasks[t].put # "none" \/ tasks[t].panicked
      /\ tasks[t].pc # "done" =>
           /\ tasks[t].uploadPath = tasks[t].path
           /\ tasks[t].uploadFilename = tasks[t].filename
           /\ Ext(tasks[t].uploadFilename) = "ts"
           /\ tasks[t].currentSize = tasks[t].initialSize
      /\ tasks[t].pc = "upload" =>
           /\ Exists(fs, tasks[t].path)
           /\ fs[tasks[t].path].size = tasks[t].initialSize
           /\ fs[tasks[t].path].kind = tasks[t].startKind
      /\ tasks[t].put = "ok" /\ tasks[t].pc # "done" =>
           /\ tasks[t].putPath = tasks[t].path
           /\ Exists(s3, tasks[t].filename)
           /\ s3[tasks[t].filename].size = tasks[t].initialSize

\* C8 witness: after two failed remux attempts the original .ts file has been
\* put to the object store under its .ts name.
C8_Witness ==
  \E t \in DOMAIN tasks :
    /\ tasks[t].remuxFails = 2 /\ tasks[t].put = "ok" /\ tasks[t].pc = "finalize"
    /\ Ext(tasks[t].uploadFilename) = "ts"

\* C9: a step of the compression stage replaces the payload by the
\* transcoder's output exactly when that output exists, is not empty and is
\* strictly smaller than the payload; otherwise uploadPath, its file and
\* currentSize stay as they were and the output is removed; currentSize
\* never grows.
C9_CompressStep(t) ==
  LET T == tasks[t]
      N == tasks'[t]
      keep == /\ Exists(fs, T.out) /\ Exists(fs, T.uploadPath)
              /\ fs[T.out].size > 0
              /\ fs[T.out].size < fs[T.uploadPath].size
  IN /\ N.currentSize <= T.currentSize
     /\ (T.pc = "compressed" /\ keep) =>
          /\ N.uploadPath = T.out
          /\ N.currentSize = fs[T.out].size
          /\ Exists(fs', T.out) /\ fs'[T.out] = fs[T.out]
          /\ ~Exists(fs', T.uploadPath)
     /\ (T.pc = "compress" \/ ~keep) =>
          /\ N.uploadPath = T.uploadPath
          /\ N.currentSize = T.currentSize
          /\ Exists(fs, T.uploadPath) =>
               Exists(fs', T.uploadPath) /\ fs'[T.uploadPath] = fs[T.uploadPath]
          /\ T.pc = "compressed" => ~Exists(fs', T.out)

C9_CompressionNeverGrows ==
  [][ \A t \in DOMAIN tasks :
        (tasks[t].pc \in {"compress", "compressed"} /\ t \in DOMAIN tasks'
           /\ tasks'[t].pc # tasks[t].pc) => C9_CompressStep(t) ]_vars

\* C9 witness: a compressed output, smaller than the payload and not empty,
\* has replaced it.
C9_Witness ==
  \E t \in DOMAIN tasks :
    /\ tasks[t].pc = "upload"
    /\ Len(tasks[t].uploadPath.name) >= 2
    /\ tasks[t].uploadPath.name[Len(tasks[t].uploadPath.name) - 1] = "compressed"
    /\ Exists(fs, tasks[t].uploadPath)
    /\ tasks[t].currentSize = fs[tasks[t].uploadPath].size
    /\ tasks[t].currentSize > 0

\* C10: when the copy of the file part to the staging file has failed and
\* the handler has returned, no file created for that request is in a staging
\* directory and no task was created for it.
C10_CopyFailureLeavesNothing ==
  \A r \in DOMAIN reqs :
    (reqs[r].copyFailed /\ reqs[r].pc = "done") =>
      /\ StagedFiles(r) = {}
      /\ \A t \in DOMAIN tasks : tasks[t].req # r

\* strings.Contains(name, tok), for a whole dot-separated token.
HasToken(name, tok) == \E i \in 1..Len(name) : name[i] = tok

\* C11: at every point of a task's life the name of the staging file that
\* holds its payload contains the requestId: the file being streamed by the
\* handler, and the file at uploadPath of the task the handler detached
\* (after the move, after a remux, after a compression).
C11_StagingNameHasRequestId ==
  /\ \A r \in DOMAIN reqs :
       (reqs[r].pc \notin {"done", "dead"} /\ reqs[r].streamed # NoPath) =>
         HasToken(reqs[r].streamed.name, UUID(r))
  /\ \A t \in DOMAIN tasks :
       (tasks[t].origin = "upload" /\ tasks[t].pc # "done") =>
         HasToken(tasks[t].uploadPath.name, UUID(tasks[t].req))

\* C12: when the handler has answered 400 or 500, it has detached no task
\* for the request and no file written for the request is in a staging
\* directory.
C12_RejectionLeavesNothing ==
  \A r \in DOMAIN reqs :
    (reqs[r].pc = "done" /\ reqs[r].resp \in {400, 500}) =>
      /\ \A t \in DOMAIN tasks : ~(tasks[t].req = r /\ tasks[t].origin = "upload")
      /\ StagedFiles(r) = {}

\* The sign field of request r is the signature of its base (the override
\* filename when it is not blank, the canonical filename otherwise), its
\* timestamp and the secret.
SignedRight(r) ==
  reqs[r].sign =
    GenerateSign(IF TrimSpace(reqs[r].provided) # <<>> THEN reqs[r].provided
                                                       ELSE reqs[r].final,
                 reqs[r].timestamp, cfg.SecretKey)

C14_AnswerDoesNotWait ==
  [][ \A r \in DOMAIN reqs :
        (reqs[r].resp # 200 /\ reqs'[r].resp = 200) =>
          /\ sem' = sem
          /\ Len(tasks') = Len(tasks) + 1
          /\ tasks'[Len(tasks')].req = r
          /\ tasks'[Len(tasks')].pc = "acquire"
          /\ tasks'[Len(tasks')].acquired = 0
          /\ \A t \in DOMAIN tasks : tasks'[t] = tasks[t]
          /\ s3' = s3 /\ events' = events ]_vars

\* C14 witness: an upload has been answered 200 while every slot is held and
\* another task is queued; its task waits for a slot.
C14_Witness ==
  \E r \in DOMAIN reqs, t \in DOMAIN tasks :
    /\ reqs[r].resp = 200 /\ tasks[t].req = r /\ tasks[t].pc = "acquire"
    /\ reqs[r].heldAtResp = MaxWorkers(cfg)
    /\ \E u \in DOMAIN tasks : u < t /\ tasks[u].pc = "acquire"

\* C15: for an accepted upload of a .ts file with remux enabled, the
\* filename in the data field of the 200 response is the .mp4 filename under
\* which the artifact is announced, in a behaviour where no collaborator
\* fails.
C15_ResponseCarriesFinalName ==
  \A r \in Accepted :
    (Ext(reqs[r].final) = "ts" /\ cfg.EnableTsToMp4 /\ lim.used = 0) =>
      \A e \in events :
        e.req = r => Ext(e.Filename) = "mp4" /\ e.Filename = reqs[r].data

\* The final directory holds the complete artifact of upload r under its
\* canonical filename, as received or with the .mp4 extension of the remux.
InFinalDir(r) ==
  \E p \in DOMAIN fs :
    /\ p.dir = SavedDir(cfg) /\ fs[p].req = r /\ Complete(fs[p])
    /\ p.name \in {reqs[r].final, TrimExt(reqs[r].final) \o <<"mp4">>}

\* C16: with local storage, no disaster-recovery mode and every collaborator
\* succeeding, an accepted upload leads to a state where the final directory
\* holds its artifact under the final canonical filename and no staging
\* directory holds a file of it.
C16_EventuallyFinal ==
  \A r \in 1..MaxUploads :
    (r \in DOMAIN reqs /\ reqs[r].resp = 200)
      ~> (r \in DOMAIN reqs /\ InFinalDir(r) /\ StagedFiles(r) = {})

\* A recovery pass has resubmitted tasks, all of them have terminated, and
\* this process has served no upload: the staging directories hold what the
\* pass and its tasks left.
PassSettled ==
  /\ phase = "serving"
  /\ tasks # <<>>
  /\ \A t \in DOMAIN tasks : tasks[t].origin = "recovery" /\ tasks[t].pc = "done"
  /\ \A r \in DOMAIN reqs : reqs[r].run < crashes

\* C17: after a recovery pass whose resubmitted tasks have all terminated, a
\* second pass finds no eligible file: the scanned directories hold no file
\* older than the grace window.
C17_RecoveryIdempotent == PassSettled => ScanEntries = {}

\* C18: the process was killed after a remux had completed and before the
\* upload, and the recovery pass has resubmitted the .mp4 staging file alone
\* (the pre-remux file was deleted).  With local storage and no collaborator
\* failing, the resubmitted task never invokes the remux and, once it has
\* returned, the artifact is in the final directory.
C18_RemuxedFileRecovered ==
  \A t \in DOMAIN tasks :
    ( /\ tasks[t].origin = "recovery" /\ tasks[t].startKind = "remux"
      /\ Len(tasks) = 1
      /\ cfg.EnableLocalStorage /\ lim.used = 0 ) =>
      /\ tasks[t].pc \notin {"remux1", "remux2", "remuxed"}
      /\ tasks[t].remuxFails = 0
      /\ tasks[t].pc = "done" =>
           \E p \in DOMAIN fs :
             p.dir = SavedDir(cfg) /\ fs[p].req = tasks[t].req /\ Complete(fs[p])

\* C19: every task that has returned, by completion, by a failed upload or by
\* a panic inside a stage, has added one to exactly one of successfulUploads
\* and failedUploads, exactly once, and a task that panicked has added it to
\* failedUploads and not to successfulUploads.
C19_OneTerminalCount ==
  \A t \in DOMAIN tasks :
    tasks[t].pc = "done" =>
      /\ tasks[t].countedOk + tasks[t].countedFailed = 1
      /\ tasks[t].panicked =>
           tasks[t].countedFailed = 1 /\ tasks[t].countedOk = 0

\* C20: the capacity of the worker pool is the configured worker count when
\* MAX_CONCURRENT_WORKERS is set to a positive number, and DefaultWorkers
\* (2) when it is not set or is set to a number <= 0.
C20_PoolCapacity ==
  LET n == Atoi(cfg.WorkersEnv)
  IN /\ (~n.err /\ n.val > 0) => MaxWorkers(cfg) = n.val
     /\ (cfg.WorkersEnv = "" \/ (~n.err /\ n.val <= 0)) =>
          MaxWorkers(cfg) = DefaultWorkers

\* The paths a task has been given or has written.
TaskPaths(T) ==
  { T.path, T.uploadPath, T.out, T.finalDestPath,
    ConvertOutput(T.path), CompressOutput(T.path),
    CompressOutput(ConvertOutput(T.path)) } \ {NoPath}

\* The mode-appropriate final path of a task: the backup path in
\* disaster-recovery mode, the video path otherwise, and the task's current
\* canonical filename.
ModeFinalPath(T) ==
  [ dir |-> IF cfg.DisasterRecoveryMode THEN cfg.BackupPath ELSE cfg.VideoPath,
    name |-> T.uploadFilename ]

\* C21: after a successful or disabled upload and with every file operation
\* succeeding, a task past its finalize stage has, with local storage
\* enabled, its payload in the mode-appropriate final directory under its
\* current canonical filename and no longer in the staging directory; with
\* local storage disabled, once its cleanup has run, no file of the task is
\* left on the host.
C21_FinalizeByMode ==
  \A t \in DOMAIN tasks :
    LET T == tasks[t]
    IN (T.put \in {"ok", "disabled", "noclient"} /\ lim.used = 0) =>
         /\ (cfg.EnableLocalStorage /\ T.pc \in {"publish", "defer", "release"}) =>
              /\ Exists(fs, ModeFinalPath(T))
              /\ ~Exists(fs, T.uploadPath)
         /\ (~cfg.EnableLocalStorage /\ T.pc = "release") =>
              \A q \in TaskPaths(T) : ~Exists(fs, q)

\* C22: a failed publish changes nothing already done for the task.  The
\* step at which PublishEvent fails leaves the files, the object store and
\* the success and failure counters as they were; the task has been counted
\* once, as a success; it has called PublishEvent once in its run; and the
\* artifact that finalization moved or copied is still at its final path at
\* every later step of the task.
C22_PublishFailureChangesNothing ==
  [][ \A t \in DOMAIN tasks \cap DOMAIN tasks' :
        tasks'[t].publishFailed >= 1 =>
          /\ tasks'[t].publishFailed + tasks'[t].published = 1
          /\ tasks'[t].countedOk = 1 /\ tasks'[t].countedFailed = 0
          /\ tasks[t].publishFailed = 0 =>
               /\ fs' = fs /\ s3' = s3 /\ events' = events
               /\ m'.successfulUploads = m.successfulUploads
               /\ m'.failedUploads = m.failedUploads
          /\ ( /\ tasks[t].publishFailed >= 1
               /\ tasks[t].pc \in {"defer", "release"}
               /\ tasks[t].finalized \in {"moved", "copied"} ) =>
               Exists(fs', tasks[t].finalDestPath) ]_vars

\* C22 witness: a task whose publish failed has returned, and the artifact
\* it moved is in the final directory.
C22_Witness ==
  \E t \in DOMAIN tasks :
    /\ tasks[t].pc = "done" /\ tasks[t].publishFailed = 1
    /\ tasks[t].finalized = "moved"
    /\ \E q \in DOMAIN fs : q.dir = SavedDir(cfg) /\ fs[q].req = tasks[t].req

\* A collaborator is unreachable: the object store is used (upload enabled)
\* and has no usable endpoint or does not answer; the broker has a client and
\* does not answer.
StoreUnreachable(c, n) == c.EnableS3Upload /\ ~(c.S3Configured /\ n.s3Up)
BrokerUnreachable(n) == n.rabbitMQ /\ ~n.rmqUp

Named == {"final", "rejected", "saved", "dest"}

\* C24: the override filename is only a fallback.  The canonical filename
\* is the built name whenever BuildStandardFilename succeeds, the override
\* filename when it fails and a non-blank override was supplied, and the
\* sender's original filename otherwise (each reduced to its base name).
C24_OverrideIsFallback ==
  naming.stage \in Named =>
    naming.finalFilename =
      FilepathBase(IF naming.buildErr = "" THEN naming.builtName
                   ELSE IF StringsTrimSpace(naming.providedFilename) # <<>>
                     THEN StringsTrimSpace(naming.providedFilename)
                   ELSE naming.handlerFilename)

\* The template BuildStandardFilename selects for form values f.
SelectedTemplate(f) ==
  LET imei == StringsTrimSpace(f.imei)
      typ == StringsTrimSpace(ToUpper(f.type))
      channel == StringsTrimSpace(f.channel)
      pattern == StringsTrimSpace(ToLower(f.pattern))
      rawHex == StringsTrimSpace(f.raw)
  IN IF pattern = PatternEvent \/ (imei # <<>> /\ typ # <<>> /\ channel # <<>>) THEN "event"
     ELSE IF pattern = PatternSnapshot \/ (imei # <<>> /\ rawHex # <<>>) THEN "snapshot"
     ELSE "none"

\* Every required field of the selected template is present and valid.
RequiredFieldsValid(f) ==
  LET imei == StringsTrimSpace(f.imei)
      typ == StringsTrimSpace(ToUpper(f.type))
      channel == StringsTrimSpace(f.channel)
      rawHex == StringsTrimSpace(f.raw)
      index == StringsTrimSpace(f.index)
  IN \/ /\ SelectedTemplate(f) = "event"
        /\ MatchImei(imei) /\ typ \in {<<"I">>, <<"F">>} /\ MatchChannel(channel)
     \/ /\ SelectedTemplate(f) = "snapshot"
        /\ MatchImei(imei) /\ MatchHex(rawHex) /\ MatchChannel(channel)
        /\ MatchIndex(index)

\* C25: BuildStandardFilename returns a name only when every required
\* field of the selected template is present and valid; with a required
\* field absent or invalid, or no template selected, it fails.
C25_NameOnlyFromValidFields ==
  naming.stage # "fields" =>
    (naming.buildErr = "" => RequiredFieldsValid(naming.form))

\* C26: the canonical filename of an accepted upload is a bare filename of
\* at most MaxFilenameLength characters, a longer one is rejected, and with
\* local storage the final destination path is a direct child of the final
\* directory of the mode, whatever names the sender supplied.
C26_FinalPathIsChild ==
  /\ naming.stage = "rejected" => Len(naming.finalFilename) > MaxFilenameLength
  /\ naming.stage \in {"saved", "dest"} =>
       /\ Len(naming.finalFilename) <= MaxFilenameLength
       /\ \A i \in DOMAIN naming.finalFilename : naming.finalFilename[i] # "/"
  /\ (naming.stage = "dest" /\ cfg.EnableLocalStorage) =>
       naming.finalDestPath = Append(RootedDir(SavedDir(cfg)), naming.finalFilename)

\* The place of each position of processFile in the order of its stages.
StageOrder ==
  [ pc \in { "acquire", "remux1", "remux2", "remuxed", "compress", "compressed",
             "upload", "finalize", "fcopied", "publish", "defer", "release", "done" } |->
      CASE pc = "acquire" -> 0
        [] pc = "remux1" -> 1 [] pc = "remux2" -> 2 [] pc = "remuxed" -> 3
        [] pc = "compress" -> 4 [] pc = "compressed" -> 5
        [] pc = "upload" -> 6
        [] pc = "finalize" -> 7 [] pc = "fcopied" -> 8
        [] pc = "publish" -> 9
        [] pc = "defer" -> 10 [] pc = "release" -> 11 [] pc = "done" -> 12 ]

\* C27: within one run of processFile the stages occur in the order remux,
\* compress, upload, finalize, publish and none is entered again: every
\* step of a task moves it forward in that order, a task is in finalize only
\* after its upload has succeeded or was skipped, and in publish only after
\* finalize.
C27_StagesInOrder ==
  [][ \A t \in DOMAIN tasks \cap DOMAIN tasks' :
        /\ tasks'[t] # tasks[t] =>
             StageOrder[tasks'[t].pc] > StageOrder[tasks[t].pc]
        /\ tasks'[t].pc \in {"finalize", "fcopied"} =>
             tasks'[t].put \in {"ok", "disabled", "noclient"}
        /\ tasks'[t].pc = "publish" => tasks'[t].finalized # "no" ]_vars

\* C27 witness: a task has gone through remux, compression, upload,
\* finalize and publish and is about to return.
C27_Witness ==
  \E t \in DOMAIN tasks :
    /\ tasks[t].pc = "release"
    /\ Ext(tasks[t].filename) = "ts" /\ Ext(tasks[t].uploadFilename) = "mp4"
    /\ cfg.EnableCompression
    /\ tasks[t].put = "ok" /\ tasks[t].finalized = "moved" /\ tasks[t].published = 1

\* C28: each staged file is owned by at most one live task: no two tasks
\* that have not returned were given the same path, also when the scanner
\* runs while an upload's task is queued or inside a stage, or runs twice
\* before the tasks of its first pass have returned.
C28_OneOwnerPerFile ==
  \A t, u \in DOMAIN tasks :
    (t # u /\ tasks[t].pc # "done" /\ tasks[u].pc # "done") =>
      tasks[t].path # tasks[u].path

\* The filename under which the crash-free run of an accepted upload uploads
\* and announces its artifact: the canonical filename, with the extension
\* .mp4 when the remux stage converts it.
CrashFreeName(final) ==
  IF Ext(final) = "ts" /\ cfg.EnableTsToMp4 THEN TrimExt(final) \o <<"mp4">> ELSE final

\* C29: with no collaborator failing, a task resubmitted by the recovery scan
\* for an accepted upload uploads under the filename of the crash-free run of
\* that upload, and every event announcing the upload carries that filename.
C29_RecoveredNameIsCrashFree ==
  lim.used = 0 =>
    /\ \A t \in DOMAIN tasks :
         ( /\ tasks[t].origin = "recovery"
           /\ reqs[tasks[t].req].resp = 200
           /\ tasks[t].put = "ok" ) =>
           tasks[t].uploadFilename = CrashFreeName(reqs[tasks[t].req].final)
    /\ \A e \in events :
         reqs[e.req].resp = 200 => e.Filename = CrashFreeName(reqs[e.req].final)

\* The last dot-separated token of a name.
LastToken(v) == SubSeq(v, LastIndex(v, ".") + 1, Len(v))

C31_InferredModeAndTarget ==
  \A t \in DOMAIN tasks :
    (tasks[t].origin = "recovery" /\ tasks[t].pc # "done") =>
      /\ tasks[t].isLocal = cfg.EnableLocalStorage
      /\ \E i \in 1..Len(ScanBases) :
           /\ tasks[t].path.dir \in {NestedProc(ScanBases[i]), SiblingProc(ScanBases[i])}
           /\ tasks[t].targetDir = ScanBases[i]

\* The processing directories a pass of the scan reads.
ScannedDirs ==
  UNION { {NestedProc(ScanBases[i]), SiblingProc(ScanBases[i])} : i \in 1..Len(ScanBases) }

\* The tasks a step has started.
Started == { t \in DOMAIN tasks' : t > Len(tasks) }

\* C32: a pass of the recovery scan starts no task for a file modified less
\* than 10 seconds ago, and starts exactly one task for every file older than
\* that in a scanned processing directory.
C32_OncePerPass ==
  [][ (Started # {} /\ \A t \in Started : tasks'[t].origin = "recovery") =>
        \A p \in DOMAIN fs :
          LET n == Cardinality({ t \in Started : tasks'[t].path = p })
          IN IF p.dir \in ScannedDirs /\ fs[p].old THEN n = 1 ELSE n = 0 ]_vars

\* The positions of a task inside the remux stage.
RemuxPcs == {"remux1", "remux2", "remuxed"}

\* The step of task t adopts the remux output.
RemuxAdopted(t) ==
  LET T == tasks[t]
      U == tasks'[t]
  IN /\ T.pc = "remuxed"
     /\ U.uploadPath = ConvertOutput(T.uploadPath)
     /\ U.uploadPath # T.uploadPath
     /\ ~Exists(fs', T.uploadPath)
     /\ Exists(fs', U.uploadPath)
     /\ U.currentSize = fs'[U.uploadPath].size
     /\ U.ext = "mp4"
     /\ Ext(U.uploadFilename) = "mp4"
     /\ TrimExt(U.uploadFilename) = TrimExt(T.uploadFilename)

\* The step of task t leaves the staging path, the filename and the size.
RemuxNothing(t) ==
  /\ tasks'[t].uploadPath = tasks[t].uploadPath
  /\ tasks'[t].uploadFilename = tasks[t].uploadFilename
  /\ tasks'[t].currentSize = tasks[t].currentSize
  /\ tasks'[t].ext = tasks[t].ext

\* C33: every step of a task inside the remux stage either adopts the remux
\* output (the pre-remux file is deleted, the staging path is the output,
\* the extension is .mp4 and currentSize is the output's size) or leaves
\* staging path, filename and currentSize unchanged; the output of a
\* successful invocation is adopted; the retry runs only after the first
\* invocation failed, and at most once.
C33_RemuxAllOrNothing ==
  [][ \A t \in DOMAIN tasks :
        t \in DOMAIN tasks' =>
          /\ tasks[t].pc \in RemuxPcs =>
                /\ RemuxAdopted(t) \/ RemuxNothing(t)
                /\ (tasks[t].pc = "remuxed" /\ tasks'[t].pc \notin RemuxPcs
                      /\ Exists(fs, tasks[t].out)) => RemuxAdopted(t)
                /\ tasks'[t].remuxFails <= 2
          /\ (tasks'[t].pc = "remux2" /\ tasks[t].pc # "remux2") =>
                tasks[t].pc = "remux1" /\ tasks'[t].remuxFails = 1 ]_vars

\* A task has adopted the output of the retry: the first invocation failed,
\* the staging path is the remux output and the pre-remux file is gone.
C33_Witness ==
  \E t \in DOMAIN tasks :
    /\ tasks[t].remuxFails = 1
    /\ tasks[t].pc \in {"compress", "upload"}
    /\ tasks[t].uploadPath = ConvertOutput(tasks[t].path)
    /\ tasks[t].ext = "mp4"
    /\ ~Exists(fs, tasks[t].path)
    /\ Exists(fs, tasks[t].uploadPath)

\* C34: a task started by UploadHandler has a non-empty staged payload: no
\* task is started for an upload whose file part carried zero bytes.
C34_NoTaskForEmptyPayload ==
  \A t \in DOMAIN tasks :
    (tasks[t].origin = "upload" /\ tasks[t].pc # "done") =>
      /\ tasks[t].initialSize > 0
      /\ reqs[tasks[t].req].size > 0

EventsOf(t) == { e \in events : e.task = t /\ e.run = crashes }

\* No other upload was received under the canonical filename of upload r.
OnlyOfItsName(r) ==
  \A q \in DOMAIN reqs : q # r => reqs[q].final # reqs[r].final

\* C36: once a task counted as successful has returned, in local-storage
\* mode a file of its upload exists on disk and the path of its event is
\* non-empty and names an existing file of that upload, also when the rename
\* and the copy into the final directory both failed; without local storage
\* the path of its event is empty.  Uploads that share their canonical
\* filename with another upload are left aside.
C36_EventPathNamesPayload ==
  \A t \in DOMAIN tasks :
    (tasks[t].pc = "done" /\ tasks[t].countedOk > 0 /\ OnlyOfItsName(tasks[t].req)) =>
      IF tasks[t].isLocal
        THEN /\ \E p \in DOMAIN fs : fs[p].req = tasks[t].req
             /\ \A e \in EventsOf(t) :
                  /\ e.Path # NoPath
                  /\ Exists(fs, e.Path)
                  /\ fs[e.Path].req = tasks[t].req
        ELSE \A e \in EventsOf(t) : e.Path = NoPath

\* The staging files of the task of upload r: the staged payload, the remux
\* output and the compression output of either.
StagingFilesOf(r) ==
  LET p == ProcessingPath(cfg, reqs[r].final, r)
  IN { p, ConvertOutput(p), CompressOutput(p), CompressOutput(ConvertOutput(p)) }

\* C37: when the task started for an upload has returned, no staging
\* directory holds its payload, a remux output or a compression output of it,
\* whether adopted, not adopted or left by an invocation that failed.
C37_NothingStagedAfterReturn ==
  \A t \in DOMAIN tasks :
    (tasks[t].origin = "upload" /\ tasks[t].pc = "done") =>
      \A p \in StagingFilesOf(tasks[t].req) : ~Exists(fs, p)

\* C38: a run of the cleanup sweep (a step that changes no request and no
\* task) leaves in place the staged file of every task that has not
\* returned, whatever the age of the file.
C38_SweepSparesLiveTasks ==
  [][ (tasks' = tasks /\ reqs' = reqs) =>
        \A t \in DOMAIN tasks :
          (tasks[t].pc # "done" /\ Exists(fs, tasks[t].uploadPath)) =>
            Exists(fs', tasks[t].uploadPath) ]_vars

\* C39: in every state activeProcessors is between 0 and the pool's capacity
\* and at most the number of slots held, waitingProcessors and activeUploads
\* are not negative, and the three gauges are 0 when no request and no task
\* is in flight.
C39_GaugesInRange ==
  /\ m.activeProcessors >= 0
  /\ m.activeProcessors <= MaxWorkers(cfg)
  /\ m.activeProcessors <= sem
  /\ m.waitingProcessors >= 0
  /\ m.activeUploads >= 0
  /\ Idle => m.activeProcessors = 0 /\ m.waitingProcessors = 0 /\ m.activeUploads = 0

\* A pool of capacity 2 has two tasks inside their stages and a third
\* waiting for a slot.
C39_Witness ==
  /\ MaxWorkers(cfg) = 2
  /\ m.activeProcessors = 2
  /\ m.waitingProcessors = 1
  /\ sem = 2

\* C40: when every request and every task has terminated, in a process that
\* has run no task resubmitted by the recovery scan and no task that
\* panicked, totalIncoming is the sum of successfulUploads, failedUploads and
\* interruptedUploads.
C40_EveryRequestCountedOnce ==
  ( /\ Idle
    /\ \A t \in DOMAIN tasks : tasks[t].origin = "upload" /\ ~tasks[t].panicked ) =>
    m.totalIncoming = m.successfulUploads + m.failedUploads + m.interruptedUploads

\* Every upload of a behaviour has terminated, one rejected by the handler
\* or failed in its task and one completed.
C40_Witness ==
  /\ Idle
  /\ \A t \in DOMAIN tasks : tasks[t].origin = "upload" /\ ~tasks[t].panicked
  /\ m.totalIncoming = MaxPoolUploads
  /\ m.successfulUploads >= 1
  /\ m.failedUploads >= 1

====
